---- MODULE Spec2Model ----
(***************************************************************************)
(* A model of doc2talk: the knowledge graph builder and query engine       *)
(* (docgraph.py), the session / context manager and the chat engine        *)
(* (core.py), and the callers that drive a chat turn (cli.py,              *)
(* web/server.py).                                                         *)
(*                                                                         *)
(* Text is modelled as a sequence of whitespace-separated items.  An item  *)
(* is a word (one match of \b\w+\b) or a markdown heading marker ("##"),   *)
(* which str.split() counts and tokenize() drops.  BM25 scores are kept in *)
(* fixed point, in thousandths.                                            *)
(***************************************************************************)
EXTENDS Integers, Sequences, FiniteSets, TLC

(***************************************************************************)
(* Bounds of the model.                                                    *)
(***************************************************************************)
\* the largest number of *.py files under the code root
MaxPyFiles == 2
\* the largest number of *.md files under the docs root
MaxMdFiles == 2
\* the number of queries one run issues
MaxQueries == 2
\* the number of questions put to one session
MaxQuestions == 2
\* the number of times a front end is started on the session
MaxRuns == 2
\* the largest max_history and max_contexts a session is given; the command
\* line passes these two as its defaults
MaxHistory == 3
MaxContexts == 2
MaxChunks == 1
MaxStreamQuestions == 1

(***************************************************************************)
(* Generic helpers.                                                        *)
(***************************************************************************)
None == "None"

Range(s) == {s[i] : i \in 1..Len(s)}

\* d[k] = v, as Python's dict assignment: the key is added or overwritten
DictSet(d, k, v) == [x \in (DOMAIN d) \cup {k} |-> IF x = k THEN v ELSE d[x]]

\* dict.get(k, default)
DictGet(d, k, default) == IF k \in DOMAIN d THEN d[k] ELSE default

EmptyDict == [x \in {} |-> None]

\* s[-n:] for n >= 1 (for n = 0 Python's s[-0:] is the whole list)
LastN(s, n) ==
    IF n = 0 \/ Len(s) <= n THEN s ELSE SubSeq(s, Len(s) - n + 1, Len(s))

\* s[:n] for n >= 0
FirstN(s, n) == IF Len(s) <= n THEN s ELSE SubSeq(s, 1, n)

RECURSIVE SumSeq(_)
SumSeq(s) == IF s = <<>> THEN 0 ELSE Head(s) + SumSeq(Tail(s))

RECURSIVE Flatten(_)
Flatten(ss) == IF ss = <<>> THEN <<>> ELSE Head(ss) \o Flatten(Tail(ss))

\* the number of occurrences of x in the sequence s (list.count)
Count(s, x) == Cardinality({i \in 1..Len(s) : s[i] = x})

(***************************************************************************)
(* Text: str.lower, the tokenizer and the two length measures.             *)
(***************************************************************************)
HeadingMarkers == {"#", "##", "###"}

\* str.lower() on one item
Lower(w) ==
    CASE w = "Foo" -> "foo"
      [] w = "Bar" -> "bar"
      [] OTHER -> w

\* KnowledgeGraph.tokenize: re.findall(r'\b\w+\b', text.lower())
tokenize(text) ==
    LET words == SelectSeq(text, LAMBDA w : w \notin HeadingMarkers)
    IN  [i \in 1..Len(words) |-> Lower(words[i])]

\* len(doc.split())
SplitLen(text) == Len(text)

\* occurrences of token t as a substring of the lowercased item w
SubstrIn(w, t) ==
    IF Lower(w) = t THEN 1
    ELSE IF Lower(w) = "foobar" /\ t \in {"foo", "bar"} THEN 1
    ELSE 0

\* doc.lower().count(token): substring occurrences over the whole text
StrCount(text, t) == SumSeq([i \in 1..Len(text) |-> SubstrIn(text[i], t)])

\* hashlib.sha256(content.encode()).hexdigest(): a digest is determined by,
\* and (collisions aside) determines, the content
sha256(content) == [digest |-> content]

(***************************************************************************)
(* Chunker.chunk_markdown.  A markdown file is a sequence of lines, a line *)
(* a record [h |-> heading level (0: no heading), w |-> its items].        *)
(***************************************************************************)
\* a parent of None, and the full_content key a python chunk does not have
NoParent == <<>>
NoFullContent == <<>>

LineText(line) ==
    IF line.h = 0 THEN line.w
    ELSE <<(CASE line.h = 1 -> "#" [] line.h = 2 -> "##" [] OTHER -> "###")>> \o line.w

\* re.split(r'(?=^#{2,} )', content, flags=re.MULTILINE): the fragments of the
\* file, a new fragment starting at every heading line of level >= 2
RECURSIVE SplitAtHeadings(_, _, _)
SplitAtHeadings(lines, cur, min_section_level) ==
    IF lines = <<>> THEN <<cur>>
    ELSE IF Head(lines).h >= min_section_level
         THEN <<cur>> \o SplitAtHeadings(Tail(lines), <<Head(lines)>>, min_section_level)
         ELSE SplitAtHeadings(Tail(lines), cur \o <<Head(lines)>>, min_section_level)

FragmentText(frag) == Flatten([i \in 1..Len(frag) |-> LineText(frag[i])])

chunk_markdown(content, path) ==
    LET frags == SplitAtHeadings(content, <<>>, 2)
        texts == [i \in 1..Len(frags) |-> FragmentText(frags[i])]
        kept  == SelectSeq(texts, LAMBDA t : t # <<>>)
    IN  [i \in 1..Len(kept) |->
            [content |-> kept[i],
             meta |-> [type |-> "md", path |-> path, node_type |-> "section",
                       name |-> None, parent |-> NoParent, line |-> 0,
                       full_content |-> content]]]

(***************************************************************************)
(* Chunker.chunk_python.  A parsed file is a sequence of definitions, a    *)
(* definition a record [kind |-> "class" or "def", name, line, own |-> the *)
(* items of its body outside nested definitions, body |-> the nested       *)
(* definitions].                                                           *)
(***************************************************************************)
\* ast.get_source_segment(content, node): the text of the whole definition,
\* nested definitions included
RECURSIVE SourceSegment(_)
SourceSegment(node) ==
    <<node.kind, node.name>> \o node.own
        \o Flatten([i \in 1..Len(node.body) |-> SourceSegment(node.body[i])])

\* ' > '.join(self.stack) if self.stack else None: the labels of the
\* enclosing definitions, outermost first, each label its kind and its name
JoinStack(stack) == IF stack = <<>> THEN NoParent ELSE Flatten(stack)

\* Collector.visit_ClassDef / visit_FunctionDef / generic_visit; st is the
\* collector: [stack, current_class, chunks]
RECURSIVE Visit(_, _, _)
RECURSIVE VisitAll(_, _, _)
Visit(node, st, path) ==
    IF node.kind = "class"
    THEN LET chunk == [content |-> SourceSegment(node),
                       meta |-> [type |-> "py", node_type |-> "class",
                                 name |-> node.name, path |-> path,
                                 line |-> node.line,
                                 parent |-> JoinStack(st.stack),
                                 full_content |-> NoFullContent]]
             st1 == [stack |-> Append(st.stack, <<"class", node.name>>),
                     current_class |-> Lower(node.name),
                     chunks |-> Append(st.chunks, chunk)]
             st2 == VisitAll(node.body, st1, path)
         IN  [stack |-> st.stack, current_class |-> None, chunks |-> st2.chunks]
    ELSE LET chunk == [content |-> SourceSegment(node),
                       meta |-> [type |-> "py", node_type |-> "function",
                                 name |-> node.name, path |-> path,
                                 line |-> node.line,
                                 parent |-> IF st.current_class = None
                                            THEN NoParent
                                            ELSE <<st.current_class>>,
                                 full_content |-> NoFullContent]]
             st1 == [stack |-> Append(st.stack, <<"def", node.name>>),
                     current_class |-> st.current_class,
                     chunks |-> Append(st.chunks, chunk)]
             st2 == VisitAll(node.body, st1, path)
         IN  [stack |-> st.stack, current_class |-> st2.current_class,
              chunks |-> st2.chunks]

VisitAll(nodes, st, path) ==
    IF nodes = <<>> THEN st
    ELSE VisitAll(Tail(nodes), Visit(Head(nodes), st, path), path)

chunk_python(tree, path) ==
    VisitAll(tree, [stack |-> <<>>, current_class |-> None, chunks |-> <<>>], path).chunks

(***************************************************************************)
(* KnowledgeGraph.  A graph is a record of the fields of                   *)
(* KnowledgeGraph.__init__; graph_default tells whether the `graph` field  *)
(* is the defaultdict(list) of the constructor or a plain dict (the value  *)
(* msgpack.unpackb returns, which DocGraph.load stores as it is).          *)
(***************************************************************************)
KnowledgeGraph ==
    [nodes |-> EmptyDict, graph |-> EmptyDict, index |-> EmptyDict,
     class_registry |-> EmptyDict, function_registry |-> EmptyDict,
     parent_map |-> EmptyDict, documents |-> <<>>, graph_default |-> TRUE]

\* for token in self.tokenize(content): self.index[token].append(node_id)
RECURSIVE IndexTokens(_, _, _)
IndexTokens(index, tokens, node_id) ==
    IF tokens = <<>> THEN index
    ELSE IndexTokens(
            DictSet(index, Head(tokens),
                    Append(DictGet(index, Head(tokens), <<>>), node_id)),
            Tail(tokens), node_id)

\* an insertion that indexes the tokens of a content it does not store
add_nodeUnstored(G, content, meta) ==
    [G EXCEPT !.documents = Append(G.documents, content),
              !.index = IndexTokens(G.index, tokenize(content), sha256(content))]

\* KnowledgeGraph.add_node: the graph after the call (the id returned is
\* sha256(content))
add_node(G, content, meta) ==
    LET node_id == sha256(content)
        name    == IF meta.name = None THEN "" ELSE Lower(meta.name)
        isClass == meta.type = "py" /\ meta.node_type = "class"
        isFunc  == meta.type = "py" /\ meta.node_type = "function"
    IN  [G EXCEPT
            !.nodes = DictSet(G.nodes, node_id, [content |-> content, meta |-> meta]),
            !.documents = Append(G.documents, content),
            !.class_registry =
                IF isClass THEN DictSet(G.class_registry, name, node_id)
                ELSE G.class_registry,
            !.function_registry =
                IF isFunc THEN DictSet(G.function_registry, name, node_id)
                ELSE G.function_registry,
            !.parent_map =
                IF isFunc /\ meta.parent # NoParent
                THEN DictSet(G.parent_map, node_id, Lower(meta.parent[1]))
                ELSE G.parent_map,
            !.index = IndexTokens(G.index, tokenize(content), node_id)]

\* an insertion that links a section to the first class it names only
LinkFirstClass(graph, class_registry, tokens, node_id) ==
    LET named == SelectSeq(tokens, LAMBDA t : t \in DOMAIN class_registry)
    IN  IF named = <<>> THEN graph
        ELSE DictSet(graph, node_id,
                     Append(DictGet(graph, node_id, <<>>), class_registry[named[1]]))

\* an insertion that links no section to a class
LinkNoClasses(graph, class_registry, tokens, node_id) == graph

\* the markdown-to-class links of one chunk: for every token of the content
\* that is a key of class_registry, the class id is appended to
\* graph[node_id] (a defaultdict: the key appears with the first append)
RECURSIVE LinkClasses(_, _, _, _)
LinkClasses(graph, class_registry, tokens, node_id) ==
    IF tokens = <<>> THEN graph
    ELSE LET t == Head(tokens)
         IN  IF t \in DOMAIN class_registry
             THEN LinkClasses(
                    DictSet(graph, node_id,
                            Append(DictGet(graph, node_id, <<>>), class_registry[t])),
                    class_registry, Tail(tokens), node_id)
             ELSE LinkClasses(graph, class_registry, Tail(tokens), node_id)

\* DocGraph._add_to_graph: the graph after all chunks of one file are added
RECURSIVE add_to_graph(_, _)
add_to_graph(G, chunks) ==
    IF chunks = <<>> THEN G
    ELSE LET chunk == Head(chunks)
             G1 == add_node(G, chunk.content, chunk.meta)
             G2 == IF chunk.meta.type = "md"
                   THEN [G1 EXCEPT !.graph =
                            LinkClasses(G1.graph, G1.class_registry,
                                        tokenize(chunk.content), sha256(chunk.content))]
                   ELSE G1
         IN  add_to_graph(G2, Tail(chunks))

(***************************************************************************)
(* BM25 in fixed point.  A score x is kept as the integer 1000 * x.        *)
(***************************************************************************)
\* 1000 * ln(n) for n = 1 .. 100
LnTable ==
    <<0, 693, 1099, 1386, 1609, 1792, 1946, 2079, 2197, 2303,
      2398, 2485, 2565, 2639, 2708, 2773, 2833, 2890, 2944, 2996,
      3045, 3091, 3135, 3178, 3219, 3258, 3296, 3332, 3367, 3401,
      3434, 3466, 3497, 3526, 3555, 3584, 3611, 3638, 3664, 3689,
      3714, 3738, 3761, 3784, 3807, 3829, 3850, 3871, 3892, 3912,
      3932, 3951, 3970, 3989, 4007, 4025, 4043, 4060, 4078, 4094,
      4111, 4127, 4143, 4159, 4174, 4190, 4205, 4220, 4234, 4248,
      4263, 4277, 4290, 4304, 4317, 4331, 4344, 4357, 4369, 4382,
      4394, 4407, 4419, 4431, 4443, 4454, 4466, 4477, 4489, 4500,
      4511, 4522, 4533, 4543, 4554, 4564, 4575, 4585, 4595, 4605>>

\* a / b rounded toward minus infinity, for b # 0
Div(a, b) == IF b > 0 THEN a \div b ELSE (0 - a) \div (0 - b)

Abs(x) == IF x < 0 THEN 0 - x ELSE x

\* the largest r with r * r <= n, searched in lo .. hi
RECURSIVE IsqrtIn(_, _, _)
IsqrtIn(n, lo, hi) ==
    IF lo >= hi THEN lo
    ELSE LET mid == (lo + hi + 1) \div 2
         IN  IF mid * mid <= n THEN IsqrtIn(n, mid, hi) ELSE IsqrtIn(n, lo, mid - 1)

\* (46340 is the largest r whose square fits the 32-bit integers of TLC)
Isqrt(n) == IsqrtIn(n, 0, IF n < 46340 THEN n ELSE 46340)

\* log((N - df + 0.5) / (df + 0.5) + 1) = log((2N + 2) / (2df + 1))
Idf(N, df) == LnTable[2 * N + 2] - LnTable[2 * df + 1]

\* idf * (tf * (k1 + 1)) / (tf + k1 * (1 - b + b * dl / avgdl)) with
\* k1 = 1.5, b = 0.75 and avgdl = S / N: numerator and denominator times 8S
BM25Term(idf, tf, dl, S, N) ==
    Div(idf * 20 * tf * S, 8 * tf * S + 3 * S + 9 * dl * N)

\* scores[node_id] += score on a defaultdict(float), which keeps the order
\* in which its keys were first set
ScoreAdd(scores, id, s) ==
    IF \E i \in 1..Len(scores) : scores[i].id = id
    THEN [i \in 1..Len(scores) |->
            IF scores[i].id = id
            THEN [id |-> id, score |-> scores[i].score + s]
            ELSE scores[i]]
    ELSE Append(scores, [id |-> id, score |-> s])

\* sorted(items, key=lambda x: -x[1]): stable, descending by score
RECURSIVE InsertDesc(_, _)
InsertDesc(sorted, e) ==
    IF sorted = <<>> THEN <<e>>
    ELSE IF Head(sorted).score >= e.score
         THEN <<Head(sorted)>> \o InsertDesc(Tail(sorted), e)
         ELSE <<e>> \o sorted

RECURSIVE SortDescFrom(_, _)
SortDescFrom(sorted, rest) ==
    IF rest = <<>> THEN sorted
    ELSE SortDescFrom(InsertDesc(sorted, Head(rest)), Tail(rest))

SortDesc(items) == SortDescFrom(<<>>, items)

MaxScore(items) ==
    CHOOSE m \in {items[i].score : i \in 1..Len(items)} :
        \A i \in 1..Len(items) : items[i].score <= m

\* the inner loop of bm25_search: for node_id in self.index[token]
RECURSIVE ScorePostings(_, _, _, _, _, _)
ScorePostings(G, postings, token, idf, exclude_types, scores) ==
    IF postings = <<>> THEN scores
    ELSE LET node_id == Head(postings)
             node == G.nodes[node_id]
             doc == node.content
             tf == StrCount(doc, token)
             dl == SplitLen(doc)
             N == Len(G.documents)
             S == SumSeq([i \in 1..N |-> SplitLen(G.documents[i])])
         IN  IF node.meta.node_type \in exclude_types
             THEN ScorePostings(G, Tail(postings), token, idf, exclude_types, scores)
             ELSE ScorePostings(G, Tail(postings), token, idf, exclude_types,
                                ScoreAdd(scores, node_id, BM25Term(idf, tf, dl, S, N)))

\* the document frequency bm25_search uses for a token
SearchDf(G, token) == Len(DictGet(G.index, token, <<>>))

\* the outer loop of bm25_search: for token in tokens
RECURSIVE ScoreTokens(_, _, _, _)
ScoreTokens(G, tokens, exclude_types, scores) ==
    IF tokens = <<>> THEN scores
    ELSE LET token == Head(tokens)
             df == SearchDf(G, token)
         IN  IF df = 0
             THEN ScoreTokens(G, Tail(tokens), exclude_types, scores)
             ELSE ScoreTokens(G, Tail(tokens), exclude_types,
                    ScorePostings(G, G.index[token], token,
                                  Idf(Len(G.documents), df), exclude_types, scores))

\* KnowledgeGraph.bm25_search: [exc, val], val the (id, score) pairs
bm25_search(G, query, top_n, exclude_types) ==
    IF Len(G.documents) = 0
    THEN [exc |-> "ZeroDivisionError", val |-> <<>>]
    ELSE [exc |-> "none",
          val |-> FirstN(SortDesc(ScoreTokens(G, tokenize(query), exclude_types, <<>>)),
                         top_n)]

(***************************************************************************)
(* DocGraph: the query engine.                                             *)
(***************************************************************************)
\* iteration over a Python set: some fixed order that may differ between
\* processes (string hashing is seeded per process)
RECURSIVE SetToSeq(_)
SetToSeq(S) ==
    IF S = {} THEN <<>>
    ELSE LET x == CHOOSE y \in S : TRUE IN <<x>> \o SetToSeq(S \ {x})

Reverse(s) == [i \in 1..Len(s) |-> s[Len(s) + 1 - i]]

SetIter(S, seed) == IF seed = 0 THEN SetToSeq(S) ELSE Reverse(SetToSeq(S))

\* the document frequency of a token among the candidate documents
CandidateDf(documents, t) ==
    Cardinality({i \in 1..Len(documents) : t \in Range(tokenize(documents[i].content))})

\* the score one candidate collects over the query tokens that occur in
\* some candidate
CandidateScore(documents, known, content) ==
    LET N == Len(documents)
        S == SumSeq([i \in 1..N |-> SplitLen(documents[i].content)])
        doc_tokens == tokenize(content)
    IN  SumSeq([k \in 1..Len(known) |->
            BM25Term(Idf(N, CandidateDf(documents, known[k])),
                     Count(doc_tokens, known[k]), Len(doc_tokens), S, N)])

\* DocGraph._bm25_score: the dict cid -> score over the candidate documents
\* (a sequence of [cid, content]); a cid has an entry only when some query
\* token occurs in some candidate
bm25_score(query, documents) ==
    LET known == SelectSeq(tokenize(query), LAMBDA t : CandidateDf(documents, t) > 0)
    IN  IF known = <<>> THEN EmptyDict
        ELSE [c \in {documents[i].cid : i \in 1..Len(documents)} |->
                CandidateScore(documents, known,
                               (CHOOSE d \in Range(documents) : d.cid = c).content)]

\* self.graph.graph[node_id] for each of the ids in turn: a defaultdict adds
\* a missing key with an empty list, a plain dict raises KeyError
RECURSIVE GraphLookups(_, _, _)
GraphLookups(graph, graph_default, ids) ==
    IF ids = <<>> THEN [exc |-> "none", graph |-> graph]
    ELSE IF Head(ids) \in DOMAIN graph
         THEN GraphLookups(graph, graph_default, Tail(ids))
         ELSE IF graph_default
              THEN GraphLookups(DictSet(graph, Head(ids), <<>>), graph_default, Tail(ids))
              ELSE [exc |-> "KeyError", graph |-> graph]

\* class_candidates: the classes the retrieved sections link to
ClassCandidates(graph, ids) == UNION {Range(graph[ids[i]]) : i \in 1..Len(ids)}

\* a score divided by the maximum of its list
Normalize(score, max) == Div(score * 1000, max)

\* doc_mention_scores[cid]: 0.7 times the normalized score of every
\* retrieved section that links to the class
MentionScore(graph, doc_nodes, cid) ==
    SumSeq([i \in 1..Len(doc_nodes) |->
        IF cid \in Range(graph[doc_nodes[i].id])
        THEN Div(Normalize(doc_nodes[i].score, MaxScore(doc_nodes)) * 7, 10)
        ELSE 0])

\* bm25 + docs_score * (1 / (1 + abs(bm25) ** 1.5))
CombinedScore(bm25, docs_score) ==
    LET pow15 == Div(Abs(bm25) * Isqrt(Abs(bm25) * 1000), 1000)
        dampening == Div(1000 * 1000, 1000 + pow15)
    IN  bm25 + Div(docs_score * dampening, 1000)

AsScores(cands, value(_)) == [i \in 1..Len(cands) |-> [id |-> cands[i], score |-> value(cands[i])]]

\* the scoring of _find_related_classes once there are candidates: [exc, val]
RankClasses(G, graph, doc_nodes, query, cands) ==
    LET raw_scores ==
            bm25_score(query,
                [i \in 1..Len(cands) |->
                    [cid |-> cands[i], content |-> G.nodes[cands[i]].content]])
        max_class == MaxScore(AsScores(cands, LAMBDA c : raw_scores[c]))
        mentions == AsScores(cands, LAMBDA c : MentionScore(graph, doc_nodes, c))
        max_mention == MaxScore(mentions)
    IN  IF DOMAIN raw_scores = {}
        THEN [exc |-> "ValueError", val |-> <<>>]
        ELSE IF max_class = 0 \/ MaxScore(doc_nodes) = 0 \/ max_mention = 0
        THEN [exc |-> "ZeroDivisionError", val |-> <<>>]
        ELSE [exc |-> "none",
              val |-> SortDesc([i \in 1..Len(cands) |->
                        [id |-> cands[i],
                         score |-> CombinedScore(
                                     Normalize(raw_scores[cands[i]], max_class),
                                     Normalize(mentions[i].score, max_mention))]])]

\* DocGraph._find_related_classes: [exc, val, graph], val the (cid, score)
\* pairs and graph the `graph` field as the call leaves it
find_related_classes(G, doc_nodes, query, seed) ==
    LET ids == [i \in 1..Len(doc_nodes) |-> doc_nodes[i].id]
        looked == GraphLookups(G.graph, G.graph_default, ids)
        ranked == RankClasses(G, looked.graph, doc_nodes, query,
                              SetIter(ClassCandidates(looked.graph, ids), seed))
    IN  IF looked.exc # "none"
        THEN [exc |-> looked.exc, val |-> <<>>, graph |-> looked.graph]
        ELSE IF ClassCandidates(looked.graph, ids) = {}
        THEN [exc |-> "none", val |-> <<>>, graph |-> looked.graph]
        ELSE [exc |-> ranked.exc, val |-> ranked.val, graph |-> looked.graph]

\* Path(path).name
PathName(path) == path.name

\* the grouping of _format_results: file_map[path].append(node), the paths
\* in the order of their first node
RECURSIVE GroupByPath(_, _)
GroupByPath(groups, nodes) ==
    IF nodes = <<>> THEN groups
    ELSE LET node == Head(nodes)
             path == node.meta.path
         IN  IF \E i \in 1..Len(groups) : groups[i].path = path
             THEN GroupByPath(
                    [i \in 1..Len(groups) |->
                        IF groups[i].path = path
                        THEN [path |-> path, nodes |-> Append(groups[i].nodes, node)]
                        ELSE groups[i]],
                    Tail(nodes))
             ELSE GroupByPath(Append(groups, [path |-> path, nodes |-> <<node>>]),
                              Tail(nodes))

\* a grouping that never promotes a file
GroupDocsSections(group, cov) ==
    [i \in 1..Len(group.nodes) |->
        [content |-> group.nodes[i].content,
         meta |-> [path |-> group.path, full_file |-> FALSE]]]

\* one group under the file coverage threshold cov = <<numerator,
\* denominator>>: the whole file, or the retrieved sections
GroupDocs(group, cov) ==
    LET full_content == group.nodes[1].meta.full_content
        total_chunks == Len(chunk_markdown(full_content, group.path))
        selected_chunks == Len(group.nodes)
    IN  IF full_content = NoFullContent \/ total_chunks = 0
        THEN group.nodes
        ELSE IF selected_chunks * cov[2] >= cov[1] * total_chunks
        THEN <<[content |-> full_content,
                meta |-> [path |-> group.path, full_file |-> TRUE]]>>
        ELSE [i \in 1..Len(group.nodes) |->
                [content |-> group.nodes[i].content,
                 meta |-> [path |-> group.path, full_file |-> FALSE]]]

\* DocGraph._format_results: the rendered context, a sequence of entries
format_results(G, doc_nodes, class_nodes, cov) ==
    LET nodes == [i \in 1..Len(doc_nodes) |-> G.nodes[doc_nodes[i].id]]
        groups == GroupByPath(<<>>, nodes)
        raw_docs == [i \in 1..Len(groups) |-> GroupDocs(groups[i], cov)]
        final_docs ==
            Flatten([i \in 1..Len(raw_docs) |->
                [k \in 1..Len(raw_docs[i]) |->
                    [content |-> raw_docs[i][k].content,
                     path |-> raw_docs[i][k].meta.path,
                     full_file |-> "full_file" \in DOMAIN raw_docs[i][k].meta
                                   /\ raw_docs[i][k].meta.full_file]]])
        shown == FirstN(final_docs, Len(doc_nodes))
        docs_part ==
            [i \in 1..Len(shown) |->
                [head |-> IF shown[i].full_file THEN "## FULL FILE:" ELSE "##",
                 name |-> PathName(shown[i].path),
                 body |-> IF shown[i].full_file
                          THEN FragmentText(shown[i].content) ELSE shown[i].content]]
        class_part ==
            IF class_nodes = <<>> THEN <<>>
            ELSE <<[head |-> "# Related Classes", name |-> "", body |-> <<>>]>>
                 \o [i \in 1..Len(class_nodes) |->
                        [head |-> "##",
                         name |-> G.nodes[class_nodes[i].id].meta.name,
                         body |-> G.nodes[class_nodes[i].id].content]]
    IN  <<[head |-> "# Documentation Context", name |-> "", body |-> <<>>]>>
        \o docs_part \o class_part

\* DocGraph.query: [exc, out, graph], out the rendered context and graph
\* the `graph` field of the knowledge graph after the call
query(G, question, top_n, top_m, cov, seed) ==
    LET found == bm25_search(G, question, top_n, {"class", "function"})
        classes == find_related_classes(G, found.val, question, seed)
    IN  IF found.exc # "none"
        THEN [exc |-> found.exc, out |-> <<>>, graph |-> G.graph]
        ELSE IF classes.exc # "none"
        THEN [exc |-> classes.exc, out |-> <<>>, graph |-> classes.graph]
        ELSE [exc |-> "none",
              out |-> format_results(G, FirstN(found.val, top_n),
                                     FirstN(classes.val, top_m), cov),
              graph |-> classes.graph]

\* query(question, top_n=10, top_m=3, file_coverage=0.6)
DefaultTopN == 10
DefaultTopM == 3
DefaultCoverage == <<3, 5>>
DefaultParams == [top_n |-> DefaultTopN, top_m |-> DefaultTopM, cov |-> DefaultCoverage]

(***************************************************************************)
(* The index file: DocGraph.persist and DocGraph.load.                     *)
(***************************************************************************)
\* DocGraph._MAGIC_HEADER and DocGraph._CACHE_VERSION
MAGIC_HEADER == "C4AIV2"
CACHE_VERSION == 2

Unset == "unset"
NoFile == [exists |-> FALSE, magic |-> "", version |-> 0, body |-> <<>>]

\* the file after open(path, 'wb'), and with the header and no data
EmptyFile == [NoFile EXCEPT !.exists = TRUE]
HeaderOnly(f) == [f EXCEPT !.body = <<>>]

\* a packing that keeps the nodes and loses the order of documents
PackGraphUnordered(G) ==
    [nodes |-> G.nodes, graph |-> G.graph, index |-> G.index,
     class_registry |-> G.class_registry,
     function_registry |-> G.function_registry,
     parent_map |-> G.parent_map, documents |-> Reverse(G.documents)]

\* msgpack.packb / msgpack.unpackb of the graph: every mapping, the
\* defaultdicts included, comes back as a plain dict
PackGraph(G) ==
    [nodes |-> G.nodes, graph |-> G.graph, index |-> G.index,
     class_registry |-> G.class_registry,
     function_registry |-> G.function_registry,
     parent_map |-> G.parent_map, documents |-> G.documents]

\* str(self.code_root) if hasattr(self, 'code_root') else None
RootToState(root) == IF root = Unset THEN None ELSE root

\* DocGraph.persist: the file written for the instance [kg, code_root,
\* docs_root, exclude]
persist(D) ==
    [exists |-> TRUE,
     magic |-> MAGIC_HEADER,
     version |-> CACHE_VERSION,
     body |-> <<[graph |-> PackGraph(D.kg),
                 code_root |-> RootToState(D.code_root),
                 docs_root |-> RootToState(D.docs_root),
                 exclude |-> D.exclude,
                 version |-> CACHE_VERSION]>>]

\* a load that does not look at the header
loadUnchecked(file) ==
    IF file.body = <<>> THEN [exc |-> "ZstdError", val |-> <<>>]
    ELSE [exc |-> "none",
          val |-> <<[kg |-> file.body[1].graph @@ [graph_default |-> FALSE],
                     code_root |-> file.body[1].code_root,
                     docs_root |-> file.body[1].docs_root,
                     exclude |-> file.body[1].exclude]>>]

\* DocGraph.load: [exc, val], val the instance rebuilt from the file.
\* open raises for a missing file, mmap for an empty one, the decoder for
\* a file whose data are missing
load(file) ==
    IF ~file.exists
    THEN [exc |-> "FileNotFoundError", val |-> <<>>]
    ELSE IF file = EmptyFile
    THEN [exc |-> "ValueError", val |-> <<>>]
    ELSE IF file.magic # MAGIC_HEADER
    THEN [exc |-> "ValueError", val |-> <<>>]
    ELSE IF file.version # CACHE_VERSION
    THEN [exc |-> "ValueError", val |-> <<>>]
    ELSE IF file.body = <<>>
    THEN [exc |-> "ZstdError", val |-> <<>>]
    ELSE LET state == file.body[1]
         IN  [exc |-> "none",
              val |-> <<[kg |-> [nodes |-> state.graph.nodes,
                                 graph |-> state.graph.graph,
                                 index |-> state.graph.index,
                                 class_registry |-> state.graph.class_registry,
                                 function_registry |-> state.graph.function_registry,
                                 parent_map |-> state.graph.parent_map,
                                 documents |-> state.graph.documents,
                                 graph_default |-> FALSE],
                         code_root |-> IF state.code_root # None
                                       THEN state.code_root ELSE Unset,
                         docs_root |-> IF state.docs_root # None
                                       THEN state.docs_root ELSE Unset,
                         exclude |-> state.exclude]>>]

(***************************************************************************)
(* Sessions: ChatSession, SessionManager and ContextManager (core.py).     *)
(* A message is [role, content]; a content and a rendered context are      *)
(* texts.                                                                  *)
(***************************************************************************)
\* ContextManager.__init__
ContextManager(max_contexts) ==
    [context_history |-> <<>>, last_action |-> "none", max_contexts |-> max_contexts]

\* an update that replaces whatever the mode
updateReplace(cm, new_context, mode) ==
    [cm EXCEPT !.last_action = mode, !.context_history = <<new_context>>]

\* ContextManager.update(new_context, mode)
update(cm, new_context, mode) ==
    [cm EXCEPT !.last_action = mode,
               !.context_history =
                   IF mode = "replace" THEN <<new_context>>
                   ELSE IF mode = "append"
                   THEN LastN(Append(@, new_context), cm.max_contexts)
                   ELSE @]

\* ContextManager.current_context: the contexts joined
current_context(cm) == Flatten(cm.context_history)

\* the keys of action_map in ContextManager.get_status
ActionMap == {"replace", "append", "none"}

\* action_map[mode] in ContextManager.get_status
action_map(mode) ==
    IF mode = "replace" THEN "New Context"
    ELSE IF mode = "append" THEN "Additional Context"
    ELSE "No Context Added"

\* ContextManager.get_status: [exc, context_count, action]
get_status(cm) ==
    IF cm.last_action \in ActionMap
    THEN [exc |-> "none", context_count |-> Len(cm.context_history),
          action |-> action_map(cm.last_action)]
    ELSE [exc |-> "KeyError", context_count |-> 0, action |-> ""]

\* the session id the model follows: the one a new session is given, and
\* the one the front ends are started on afterwards
SessionId == "sid"

\* ChatSession.__init__: is_new tells whether no session id was given
ChatSession(is_new, max_history, max_contexts) ==
    [session_id |-> SessionId, messages |-> <<>>, is_new |-> is_new,
     max_history |-> max_history, context_manager |-> ContextManager(max_contexts)]

\* an add_message that keeps every message
add_messageUntrimmed(session, role, content) ==
    [session EXCEPT !.messages = Append(@, [role |-> role, content |-> content])]

\* ChatSession.add_message
add_message(session, role, content) ==
    [session EXCEPT !.messages =
        LastN(Append(@, [role |-> role, content |-> content]), session.max_history)]

\* the messages of the generation call: the system prompt with
\* current_context() embedded, then session.messages[-6:]
PromptWindow == 6
NoPrompt == [context |-> <<>>, messages |-> <<>>]
Prompt(session) ==
    [context |-> current_context(session.context_manager),
     messages |-> LastN(session.messages, PromptWindow)]

\* the fields ContextDecider.decide formats into its decision prompt:
\* last_question is session.messages[-2]["content"] when the session has two
\* messages or more, and the empty string otherwise
DecisionPrompt(session, new_question) ==
    [contexts |-> current_context(session.context_manager),
     last_question |-> IF Len(session.messages) >= 2
                       THEN session.messages[Len(session.messages) - 1].content
                       ELSE <<>>,
     new_question |-> new_question]

NoSessionFile == [exists |-> FALSE, id |-> "", messages |-> <<>>, contexts |-> <<>>]

\* SessionManager.save: the JSON file of the session
SessionManager_save(session) ==
    [exists |-> TRUE, id |-> session.session_id, messages |-> session.messages,
     contexts |-> session.context_manager.context_history]

\* a load that keeps the messages of the file and starts with no contexts
SessionManager_loadMessages(data, max_history, max_contexts) ==
    [ChatSession(FALSE, max_history, max_contexts) EXCEPT
        !.session_id = data.id,
        !.messages = data.messages]

\* SessionManager.load(session_id, max_history, max_contexts) of an
\* existing file: ChatSession(data["id"], ...), then the messages and the
\* contexts of the file are assigned and is_new is cleared
SessionManager_load(data, max_history, max_contexts) ==
    [ChatSession(FALSE, max_history, max_contexts) EXCEPT
        !.session_id = data.id,
        !.messages = data.messages,
        !.context_manager.context_history = data.contexts,
        !.is_new = FALSE]

(***************************************************************************)
(* The decision call: ContextDecider.decide and ChatEngine.update_context. *)
(* The content of a reply is a sequence of pieces: the two tags, JSON      *)
(* documents, other text.                                                  *)
(***************************************************************************)
OpenTag == "<response>"
CloseTag == "</response>"

\* json.loads of one piece: whether it parses, whether the value is an
\* object with the key "decision", and the value under that key
json_loads(piece) ==
    CASE piece = "{\"decision\": \"new\"}" ->
            [valid |-> TRUE, has_decision |-> TRUE, decision |-> "new"]
      [] piece = "{\"decision\": \"additional\"}" ->
            [valid |-> TRUE, has_decision |-> TRUE, decision |-> "additional"]
      [] piece = "{\"decision\": \"none\"}" ->
            [valid |-> TRUE, has_decision |-> TRUE, decision |-> "none"]
      [] piece = "{\"decision\": \"maybe\"}" ->
            [valid |-> TRUE, has_decision |-> TRUE, decision |-> "maybe"]
      [] piece = "{\"answer\": \"new\"}" ->
            [valid |-> TRUE, has_decision |-> FALSE, decision |-> ""]
      [] OTHER -> [valid |-> FALSE, has_decision |-> FALSE, decision |-> ""]

\* str.split(sep): the pieces between the occurrences of sep
RECURSIVE Split(_, _, _)
Split(raw, sep, cur) ==
    IF raw = <<>> THEN <<cur>>
    ELSE IF Head(raw) = sep THEN <<cur>> \o Split(Tail(raw), sep, <<>>)
    ELSE Split(Tail(raw), sep, Append(cur, Head(raw)))

\* ContextDecider.decide, from the outcome of acompletion on: a reply is
\* [raises, content]; every exception ends in the fallback "new"
decide(reply) ==
    IF reply.raises THEN "new"
    ELSE LET after_open == Split(reply.content, OpenTag, <<>>)
         IN  IF Len(after_open) < 2 THEN "new"
             ELSE LET json_str == Split(after_open[2], CloseTag, <<>>)[1]
                  IN  IF Len(json_str) # 1 THEN "new"
                      ELSE IF ~json_loads(json_str[1]).valid THEN "new"
                      ELSE IF ~json_loads(json_str[1]).has_decision THEN "new"
                      ELSE json_loads(json_str[1]).decision

\* ChatEngine.update_context from the return of knowledge_assistant.query
\* on, r being what the query returned or raised
ContextUpdate(session, decision, r) ==
    IF r.exc # "none"
    THEN [exc |-> r.exc, session |-> session, graph |-> r.graph]
    ELSE [exc |-> "none",
          session |-> [session EXCEPT !.context_manager =
                          update(@, r.out,
                                 IF decision = "new" THEN "replace" ELSE "append")],
          graph |-> r.graph]

\* ChatEngine.update_context on the knowledge graph G of the engine:
\* [exc, session, graph]
update_context(session, G, question, decision, seed) ==
    IF decision = "none"
    THEN [exc |-> "none", session |-> session, graph |-> G.graph]
    ELSE ContextUpdate(session, decision,
            query(G, question, DefaultTopN, DefaultTopM, DefaultCoverage, seed))

(***************************************************************************)
(* The source trees the model builds from.                                 *)
(***************************************************************************)
PyA ==
    [name |-> "a.py", parses |-> TRUE,
     tree |-> <<[kind |-> "class", name |-> "Foo", line |-> 1, own |-> <<"bar">>,
                 body |-> <<[kind |-> "def", name |-> "m", line |-> 2,
                             own |-> <<"x">>, body |-> <<>>]>>]>>]

PyB ==
    [name |-> "b.py", parses |-> TRUE,
     tree |-> <<[kind |-> "def", name |-> "m", line |-> 1, own |-> <<"x">>,
                 body |-> <<>>],
                [kind |-> "class", name |-> "Bar", line |-> 3, own |-> <<"foo">>,
                 body |-> <<>>]>>]

MdA ==
    [name |-> "a.md",
     lines |-> <<[h |-> 2, w |-> <<"intro">>], [h |-> 0, w |-> <<"Foo", "bar">>],
                 [h |-> 2, w |-> <<"usage">>], [h |-> 0, w |-> <<"x">>]>>]

MdB ==
    [name |-> "b.md",
     lines |-> <<[h |-> 2, w |-> <<"usage">>], [h |-> 0, w |-> <<"x">>],
                 [h |-> 2, w |-> <<"usage">>], [h |-> 0, w |-> <<"x">>]>>]

\* a file that is not Python source: ast.parse raises SyntaxError
PyBad == [name |-> "c.py", parses |-> FALSE, tree |-> <<>>]

PyCatalog == {PyA, PyB, PyBad}
MdCatalog == {MdA, MdB}

\* the sequences of at most n distinct members of S: the order in which
\* rglob may yield the files of a directory
RECURSIVE Listings(_, _)
Listings(S, n) ==
    IF n = 0 THEN {<<>>}
    ELSE {<<>>} \cup UNION {{<<x>> \o l : l \in Listings(S \ {x}, n - 1)} : x \in S}

\* the source references a caller may pass: None, the empty string, an
\* existing local directory, a path no resolver accepts
Sources == {None, "", "repo", "nowhere"}

\* LocalResolver.validate: Path(path).exists()
PathExists(path) == path = "repo"

Truthy(x) == x \notin {None, ""}

\* the exclude patterns a caller may pass
Excludes == {<<>>, <<"*/b.py">>}

\* fnmatch.fnmatch(str(path), pattern)
FnMatch(path, pattern) == pattern = "*/b.py" /\ path.name = "b.py"

\* DocGraph._is_excluded
is_excluded(exclude, path) == \E i \in 1..Len(exclude) : FnMatch(path, exclude[i])

\* the questions asked of the graph
Questions == {<<>>, <<"x">>, <<"foo">>, <<"intro", "usage">>}

(***************************************************************************)
(* The state of one DocGraph: its construction (DocGraph.__init__,         *)
(* _setup_paths, _build_graph), the index file, the instance loaded from   *)
(* it, and the queries.                                                    *)
(***************************************************************************)
VARIABLES
    pc,           \* where the constructor is: "new", "code", "docs", "built", "failed"
    err,          \* the exception the constructor raised, or "none"
    args,         \* the arguments of the constructor call
    todo,         \* the files rglob has still to yield: [py, md]
    chunks_left,  \* the chunks of the current file _add_to_graph has still to add
    kg,           \* self.graph, the KnowledgeGraph of the instance
    dg,           \* the attributes of the instance: code_root, docs_root, exclude
    resolved,     \* the references a resolver was asked to resolve
    inserted,     \* the chunks add_node was called with so far
    file,         \* the index file on disk
    loaded,       \* the instance DocGraph.load returned: <<>> or <<instance>>
    qres,         \* the last query: which instance, the question, the outcome
    nq,           \* the number of queries issued
    hashseed,     \* the string hash seed of the process
    load_res      \* the last DocGraph.load of a process: the file as it read
                  \* it and what it raised

VARIABLES
    frontend,     \* what drives the session: "cli" or "web"
    running,      \* whether the front end process is up
    session,      \* the ChatSession object of the process
    session_file, \* the JSON file SessionManager keeps for the session id
    handlers,     \* per handler, where it is in the turn it is handling
    asked,        \* the number of questions received so far
    runs,         \* the number of times a front end was started
    said,         \* the messages the session object was restored with and then
                  \* given by add_message, the last MaxHistory of them
    lossy,        \* whether a response can fail in its middle: the generation
                  \* stream after a chunk, a send_json of a chunk; when FALSE
                  \* a response arrives whole or not at all
    exited        \* how the last command-line process that ended came to its
                  \* end, and the exit code the interpreter gave it

VARIABLES
    remote        \* the cache directory GitHubResolver keeps for one remote
                  \* repository, and what its last resolve came to

VARIABLES
    chunker       \* one call of Chunker.chunk_python: the parsed module it
                  \* is given and the chunks it returned

VARIABLES
    ctx           \* one ContextManager driven directly: the manager, the
                  \* arguments of its last update and its list before it

VARIABLES
    engines       \* the index directory ~/.doctalk/index and the ChatEngine
                  \* objects constructed over it, in the order of construction

VARIABLES
    web           \* the server process: manager.active_connections, the
                  \* WebSocket connections and the keys of active_sessions

auxVars == <<chunker, ctx, engines, web>>

NoChunker == [pc |-> "idle", tree |-> <<>>, chunks |-> <<>>]

NoEngines == [cache |-> <<>>, made |-> <<>>]

WebSockets == {"a", "b", "c"}
SessionIds == {"s1", "s2"}

\* ConnectionManager.__init__, active_sessions = {}, and no connection yet
NoWeb ==
    [active_connections |-> <<>>,
     sockets |-> [w \in WebSockets |-> [state |-> "new", session_id |-> ""]],
     active_sessions |-> {}]

NoCall == [new_context |-> <<>>, mode |-> "unused"]

NoCtx ==
    [cm |-> [context_history |-> <<>>, last_action |-> "none", max_contexts |-> 1],
     call |-> NoCall, before |-> <<>>]

\* nothing outside the DocGraph, the chat process and the resolver is in use
AuxIdle ==
    /\ chunker = NoChunker
    /\ engines = NoEngines
    /\ web = NoWeb
    /\ ctx = NoCtx

chatVars == <<frontend, running, session, session_file, handlers, asked, runs, said, lossy,
              exited>>

Handlers == {"cli", "ws1", "ws2", "api"}

\* the handlers of a front end: the one input loop of the command line,
\* the websocket_endpoint coroutines of the connections to the session id
\* (two of them where responses arrive whole), or a caller of
\* ChatEngine.respond
HandlersOf(fe) ==
    IF fe = "cli" THEN {"cli"}
    ELSE IF fe = "api" THEN {"api"}
    ELSE IF lossy THEN {"ws1"} ELSE {"ws1", "ws2"}

\* a handler between turns; in a turn, `before` is the number of contexts
\* when the question arrived, `decision` what the first decide returned,
\* `shaped` whether the reply it read had the shape asked for, `decisions`
\* the number of times decide ran for the question, `full_response` the
\* chunks the handler took from the response stream, `decide_raised`
\* whether the decision call of generate_response_stream raised inside
\* decide, `raised` whether an exception reached the except clause of
\* generate_response_stream, `abandoned` whether the handler left the
\* stream before the generator had yielded its last chunk, `prompt` the
\* messages of the generation call.  decide_raised and prompt are records
\* of what happened, kept where one response is followed (lossy).
Idle ==
    [pc |-> "idle", question |-> <<>>, before |-> 0, decision |-> "", shaped |-> TRUE,
     decisions |-> 0, full_response |-> <<>>, decide_raised |-> FALSE, raised |-> FALSE,
     abandoned |-> FALSE, prompt |-> NoPrompt, stream_decision |-> ""]

\* the record of the calls of add_message
Said(log, role, content) == LastN(Append(log, [role |-> role, content |-> content]), MaxHistory)

\* no command-line process has ended since the last front end started
NoExit == [how |-> "none", code |-> 0]

\* the exit code of the interpreter when main_entry_point returns: asyncio.run
\* returned, nothing calls sys.exit
ReturnCode == 0

\* the exit code of the interpreter when an exception leaves main_entry_point
TracebackCode == 1

\* the exit code of the interpreter when KeyboardInterrupt leaves
\* main_entry_point
SigintCode == 130

\* no front end was started yet
ChatIdle ==
    /\ frontend = "cli"
    /\ running = FALSE
    /\ session = ChatSession(TRUE, MaxHistory, MaxContexts)
    /\ session_file = NoSessionFile
    /\ handlers = [h \in Handlers |-> Idle]
    /\ asked = 0
    /\ runs = 0
    /\ exited = NoExit
    /\ said = <<>>

graphVars ==
    <<pc, err, args, todo, chunks_left, kg, dg, resolved, inserted, file, loaded,
      qres, nq, hashseed, load_res>>

NoQuery == [on |-> "none", q |-> <<>>, params |-> DefaultParams, exc |-> "none", out |-> <<>>]
NoLoad == [read |-> NoFile, exc |-> "none"]

(***************************************************************************)
(* GitHubResolver: the cache of one remote repository under REPOS_DIR.     *)
(* `dir` tells whether the cache directory is absent, exists without .git, *)
(* or holds a clone; `checked` the directories of the repository that are  *)
(* in the working tree; `sparse` the paths of .git/info/sparse-checkout    *)
(* (`on` FALSE: no such file); `behind` whether the remote branch has a    *)
(* commit the clone has not; `now` what time.time() returns, in days;      *)
(* `sidecar` the .last_access file of the cache directory and `mtime` the  *)
(* st_mtime of the directory; `ok_at` the time of the last resolve that    *)
(* returned a path, as long as the .last_access it wrote is left alone;    *)
(* `op` the last operation on the cache.                                   *)
(***************************************************************************)
MAX_REPO_AGE_DAYS == 30
MaxClock == 32
Never == 0 - 1
NoSidecar == [state |-> "missing", time |-> 0]
\* the directories of the remote repository, and the paths a URL may name:
\* the root, a directory of the repository, one that is not in it
RepoDirs == {"docs", "src"}
RepoPaths == {"", "docs", "src", "gone"}

NoResolve == [exc |-> "none", path |-> "", returned |-> FALSE, fetch_failed |-> FALSE,
              accessed |-> FALSE]
NoRemote == [dir |-> "absent", checked |-> {}, sparse |-> [on |-> FALSE, paths |-> {}],
             behind |-> FALSE, res |-> NoResolve,
             now |-> 0, sidecar |-> NoSidecar, mtime |-> 0, ok_at |-> Never, op |-> "none"]

\* repo_cache_path.exists() and (repo_cache_path / ".git").exists()
Cached(r) == r.dir = "repo"

\* target_path.exists()
TargetExists(r, path) ==
    IF path = "" THEN r.dir # "absent" ELSE r.dir = "repo" /\ path \in r.checked

\* git read-tree -mu HEAD under core.sparseCheckout: the working tree is the
\* part of the repository the sparse-checkout file names
ReadTree(r) == [r EXCEPT !.checked = RepoDirs \cap r.sparse.paths, !.mtime = r.now]

\* GitHubResolver._update_access_time: .last_access holds str(time.time());
\* creating the file changes the directory
update_access_time(r) ==
    [r EXCEPT !.sidecar = [state |-> "ok", time |-> r.now],
              !.mtime = IF r.sidecar.state = "missing" THEN r.now ELSE @]

\* the end of _fetch_repo_content: the access time is written, the target
\* path is verified and returned
Verified(r, path, fetch_failed) ==
    [update_access_time(r) EXCEPT
        !.res =
            IF TargetExists(r, path)
            THEN [exc |-> "none", path |-> path, returned |-> TRUE,
                  fetch_failed |-> fetch_failed, accessed |-> TRUE]
            ELSE [exc |-> "ValueError", path |-> path, returned |-> FALSE,
                  fetch_failed |-> fetch_failed, accessed |-> TRUE],
        !.ok_at = IF TargetExists(r, path) THEN r.now ELSE @]

\* a subprocess.run(..., check=True) that fails outside the inner try
Raised(r, path, fetch_failed) ==
    [r EXCEPT !.res = [exc |-> "CalledProcessError", path |-> path, returned |-> FALSE,
                       fetch_failed |-> fetch_failed, accessed |-> FALSE]]

\* GitHubResolver._fetch_repo_content for the path of the URL: remote_ok
\* says whether the git command that talks to the remote (pull or clone)
\* succeeds, tree_ok whether git read-tree does
fetch_repo_content(r, path, remote_ok, tree_ok) ==
    IF Cached(r) /\ TargetExists(r, path)
    \* the cache is used: git pull, whose failure is printed as a warning
    THEN Verified([r EXCEPT !.behind = IF remote_ok THEN FALSE ELSE @,
                            !.mtime = IF remote_ok /\ r.behind THEN r.now ELSE @],
                  path, ~remote_ok)
    ELSE IF Cached(r)
    \* the path is added to the sparse checkout of the clone
    THEN LET r1 == [r EXCEPT !.sparse = [on |-> TRUE, paths |-> @.paths \cup {path}]]
         IN  IF tree_ok THEN Verified(ReadTree(r1), path, FALSE)
             ELSE Raised(r1, path, FALSE)
    \* a fresh clone into the directory mkdir made
    ELSE IF ~remote_ok
    THEN Raised([r EXCEPT !.dir = "empty",
                          !.mtime = IF r.dir = "absent" THEN r.now ELSE @], path, TRUE)
    ELSE LET r1 == [r EXCEPT !.dir = "repo", !.checked = RepoDirs, !.behind = FALSE,
                             !.sparse = [on |-> FALSE, paths |-> {}], !.mtime = r.now]
             r2 == [r1 EXCEPT !.sparse = [on |-> TRUE, paths |-> {path}]]
         IN  IF path = "" THEN Verified(r1, path, FALSE)
             ELSE IF tree_ok THEN Verified(ReadTree(r2), path, FALSE)
             ELSE Raised(r2, path, FALSE)

\* GitHubResolver.resolve(url) for a URL that names `path` of the repository
Resolve(path, remote_ok, tree_ok) ==
    /\ remote' = [fetch_repo_content(remote, path, remote_ok, tree_ok) EXCEPT
                     !.op = "resolve"]
    /\ UNCHANGED <<graphVars, chatVars, auxVars>>

\* the last access _cleanup_old_repos reads for the cache directory: the
\* time in .last_access, or st_mtime when the file is missing or its text
\* is not a number
LastAccess(r) == IF r.sidecar.state = "ok" THEN r.sidecar.time ELSE r.mtime

\* a cleanup that removes every cache directory
cleanup_all_repos(r) ==
    [r EXCEPT !.dir = "absent", !.checked = {}, !.sparse = [on |-> FALSE, paths |-> {}],
              !.behind = FALSE, !.sidecar = NoSidecar, !.mtime = 0]

\* GitHubResolver._cleanup_old_repos on the cache directory
cleanup_old_repos(r) ==
    IF MAX_REPO_AGE_DAYS <= 0 \/ r.dir = "absent" THEN r
    ELSE IF LastAccess(r) < r.now - MAX_REPO_AGE_DAYS
    THEN [r EXCEPT !.dir = "absent", !.checked = {},
                   !.sparse = [on |-> FALSE, paths |-> {}],
                   !.behind = FALSE, !.sidecar = NoSidecar, !.mtime = 0]
    ELSE r

\* GitHubResolver.__init__ in a process that imports docgraph
GitHubResolver ==
    /\ remote' = [cleanup_old_repos(remote) EXCEPT !.op = "init"]
    /\ UNCHANGED <<graphVars, chatVars, auxVars>>

\* time passes: half the maximum age, or a day more
Tick(days) ==
    /\ remote.now + days <= MaxClock
    /\ remote' = [remote EXCEPT !.now = @ + days, !.op = "tick"]
    /\ UNCHANGED <<graphVars, chatVars, auxVars>>

\* .last_access is overwritten with text that float() rejects
SidecarDamaged ==
    /\ remote.sidecar.state = "ok"
    /\ remote' = [remote EXCEPT !.sidecar.state = "unreadable", !.ok_at = Never,
                                !.op = "damage"]
    /\ UNCHANGED <<graphVars, chatVars, auxVars>>

\* a commit is pushed to the branch of the remote repository
RemoteCommit ==
    /\ Cached(remote)
    /\ ~remote.behind
    /\ remote' = [remote EXCEPT !.behind = TRUE, !.op = "commit"]
    /\ UNCHANGED <<graphVars, chatVars, auxVars>>

ResolverNext ==
    \/ \E path \in RepoPaths, remote_ok \in BOOLEAN, tree_ok \in BOOLEAN :
          Resolve(path, remote_ok, tree_ok)
    \/ RemoteCommit
    \/ GitHubResolver
    \/ \E days \in {MAX_REPO_AGE_DAYS \div 2, MAX_REPO_AGE_DAYS \div 2 + 1} : Tick(days)
    \/ SidecarDamaged

GraphInit ==
    /\ remote = NoRemote
    /\ AuxIdle
    /\ pc = "new"
    /\ err = "none"
    /\ args = [code_source |-> None, docs_source |-> None]
    /\ \E py \in Listings(PyCatalog, MaxPyFiles), md \in Listings(MdCatalog, MaxMdFiles) :
          todo = [py |-> py, md |-> md]
    /\ chunks_left = <<>>
    /\ kg = KnowledgeGraph
    /\ dg = [code_root |-> Unset, docs_root |-> Unset, exclude |-> <<>>]
    /\ resolved = {}
    /\ inserted = {}
    /\ file = NoFile
    /\ loaded = <<>>
    /\ qres = NoQuery
    /\ nq = 0
    /\ hashseed \in {0, 1}
    /\ load_res = NoLoad
    /\ ChatIdle
    /\ lossy = FALSE

\* DocGraph._get_resolver: whether some resolver validates the reference
HasResolver(path) == PathExists(path)

\* DocGraph._setup_paths: [exc, code_root, docs_root, resolved]
setup_paths(code_source, docs_source) ==
    LET code_ok == Truthy(code_source) /\ HasResolver(code_source)
        docs_ok == Truthy(docs_source) /\ HasResolver(docs_source)
        code_root == IF code_ok THEN code_source ELSE Unset
        docs_root == IF docs_ok THEN docs_source ELSE Unset
    IN  IF Truthy(code_source) /\ ~code_ok
        THEN [exc |-> "ValueError", code_root |-> Unset, docs_root |-> Unset,
              resolved |-> {}]
        ELSE IF Truthy(docs_source) /\ ~docs_ok
        THEN [exc |-> "ValueError", code_root |-> code_root, docs_root |-> Unset,
              resolved |-> {code_source} \ {None, ""}]
        ELSE IF Truthy(docs_source) /\ ~Truthy(code_source)
        \* `docs_resolver != code_resolver` reads a local that was never bound
        THEN [exc |-> "UnboundLocalError", code_root |-> Unset, docs_root |-> docs_root,
              resolved |-> {docs_source}]
        ELSE IF code_root = Unset /\ docs_root = Unset
        THEN [exc |-> "ValueError", code_root |-> Unset, docs_root |-> Unset,
              resolved |-> {}]
        ELSE [exc |-> "none", code_root |-> code_root, docs_root |-> docs_root,
              resolved |-> {code_source, docs_source} \ {None, ""}]

\* DocGraph.__init__ up to the call of _build_graph
DocGraphInit(code_source, docs_source, exclude) ==
    /\ pc = "new"
    /\ args' = [code_source |-> code_source, docs_source |-> docs_source]
    /\ IF code_source = None /\ docs_source = None
       THEN /\ pc' = "failed"
            /\ err' = "ValueError"
            /\ UNCHANGED <<dg, resolved>>
       ELSE LET r == setup_paths(code_source, docs_source)
            IN  /\ dg' = [code_root |-> r.code_root, docs_root |-> r.docs_root,
                          exclude |-> exclude]
                /\ resolved' = r.resolved
                /\ err' = IF r.exc # "none" THEN r.exc
                          ELSE IF r.code_root = Unset THEN "AttributeError"
                          ELSE "none"
                /\ pc' = IF r.exc # "none" \/ r.code_root = Unset THEN "failed" ELSE "code"
    /\ UNCHANGED <<todo, chunks_left, kg, inserted, file, loaded, qres, nq, hashseed, load_res>>
    /\ UNCHANGED <<chatVars, remote, auxVars>>

\* _build_graph, one file of `for py_path in self.code_root.rglob('*.py')`:
\* the file is skipped when excluded, chunked otherwise
ReadPyFile ==
    /\ pc = "code"
    /\ chunks_left = <<>>
    /\ todo.py # <<>>
    /\ LET f == Head(todo.py)
           path == [dir |-> dg.code_root, name |-> f.name]
           raises == ~is_excluded(dg.exclude, path) /\ ~f.parses
       IN  /\ chunks_left' = IF is_excluded(dg.exclude, path) \/ raises THEN <<>>
                              ELSE chunk_python(f.tree, path)
           \* the SyntaxError of ast.parse leaves _build_graph and __init__
           /\ pc' = IF raises THEN "failed" ELSE pc
           /\ err' = IF raises THEN "SyntaxError" ELSE err
    /\ todo' = [todo EXCEPT !.py = Tail(todo.py)]
    /\ UNCHANGED <<args, kg, dg, resolved, inserted, file, loaded, qres, nq,
                   hashseed, load_res>>
    /\ UNCHANGED <<chatVars, remote, auxVars>>

\* _add_to_graph, one iteration of `for chunk in chunks`
AddChunk ==
    /\ pc \in {"code", "docs"}
    /\ chunks_left # <<>>
    /\ kg' = add_to_graph(kg, <<Head(chunks_left)>>)
    /\ inserted' = inserted \cup {Head(chunks_left)}
    /\ chunks_left' = Tail(chunks_left)
    /\ UNCHANGED <<pc, err, args, todo, dg, resolved, file, loaded, qres, nq, hashseed, load_res>>
    /\ UNCHANGED <<chatVars, remote, auxVars>>

\* _build_graph, the end of the code loop: self.docs_root.rglob('*.md') is
\* evaluated, which needs the attribute docs_root
BeginDocs ==
    /\ pc = "code"
    /\ chunks_left = <<>>
    /\ todo.py = <<>>
    /\ IF dg.docs_root = Unset
       THEN pc' = "failed" /\ err' = "AttributeError"
       ELSE pc' = "docs" /\ err' = err
    /\ UNCHANGED <<args, todo, chunks_left, kg, dg, resolved, inserted, file, loaded,
                   qres, nq, hashseed, load_res>>
    /\ UNCHANGED <<chatVars, remote, auxVars>>

\* _build_graph, one file of `for md_path in self.docs_root.rglob('*.md')`
ReadMdFile ==
    /\ pc = "docs"
    /\ chunks_left = <<>>
    /\ todo.md # <<>>
    /\ LET f == Head(todo.md)
           path == [dir |-> dg.docs_root, name |-> f.name]
       IN  chunks_left' = IF is_excluded(dg.exclude, path) THEN <<>>
                          ELSE chunk_markdown(f.lines, path)
    /\ todo' = [todo EXCEPT !.md = Tail(todo.md)]
    /\ UNCHANGED <<pc, err, args, kg, dg, resolved, inserted, file, loaded, qres, nq,
                   hashseed, load_res>>
    /\ UNCHANGED <<chatVars, remote, auxVars>>

\* the constructor returns
FinishBuild ==
    /\ pc = "docs"
    /\ chunks_left = <<>>
    /\ todo.md = <<>>
    /\ pc' = "built"
    /\ UNCHANGED <<err, args, todo, chunks_left, kg, dg, resolved, inserted, file,
                   loaded, qres, nq, hashseed, load_res>>
    /\ UNCHANGED <<chatVars, remote, auxVars>>

\* the built instance, as persist reads it
Instance == [kg |-> kg, code_root |-> dg.code_root, docs_root |-> dg.docs_root,
             exclude |-> dg.exclude]

\* DocGraph.persist(path) on the built instance, to the open of the
\* file: open(path, 'wb') truncates it
PersistOpen ==
    /\ pc = "built"
    /\ pc' = "persisting"
    /\ file' = EmptyFile
    /\ UNCHANGED <<err, args, todo, chunks_left, kg, dg, resolved, inserted, loaded,
                   qres, nq, hashseed, load_res>>
    /\ UNCHANGED <<chatVars, remote, auxVars>>

\* the writes of persist reach the file: the header first and the data
\* in a later write, or all of them; the file is closed after the last
PersistWrite(whole) ==
    /\ pc = "persisting"
    /\ whole \/ file = EmptyFile
    /\ file' = IF whole THEN persist(Instance) ELSE HeaderOnly(persist(Instance))
    /\ pc' = IF whole THEN "built" ELSE "persisting"
    /\ UNCHANGED <<err, args, todo, chunks_left, kg, dg, resolved, inserted, loaded,
                   qres, nq, hashseed, load_res>>
    /\ UNCHANGED <<chatVars, remote, auxVars>>

\* a file that another release of the program left at the path: another
\* magic, or an older version in the header
ForeignFiles(D) ==
    {[persist(D) EXCEPT !.magic = "C4AIV1"], [persist(D) EXCEPT !.version = 1]}

ForeignFile(f) ==
    /\ pc = "built"
    /\ file = NoFile
    /\ load_res = NoLoad
    /\ nq = 0
    /\ file' = f
    /\ UNCHANGED <<pc, err, args, todo, chunks_left, kg, dg, resolved, inserted, loaded,
                   qres, nq, hashseed, load_res>>
    /\ UNCHANGED <<chatVars, remote, auxVars>>

\* a process finds the file at the path and calls DocGraph.load(path);
\* the model follows one such process, to its first failure
Load ==
    /\ file.exists
    /\ loaded = <<>>
    /\ load_res.exc = "none"
    /\ loaded' = load(file).val
    /\ load_res' = [read |-> file, exc |-> load(file).exc]
    /\ UNCHANGED <<pc, err, args, todo, chunks_left, kg, dg, resolved, inserted, file,
                   qres, nq, hashseed>>
    /\ UNCHANGED <<chatVars, remote, auxVars>>

\* DocGraph.query(question) on the built instance
QueryBuilt(q) ==
    /\ pc = "built"
    /\ nq < MaxQueries
    /\ LET r == query(kg, q, DefaultTopN, DefaultTopM, DefaultCoverage, hashseed)
       IN  /\ kg' = [kg EXCEPT !.graph = r.graph]
           /\ qres' = [on |-> "built", q |-> q, params |-> DefaultParams, exc |-> r.exc,
                       out |-> r.out]
    /\ nq' = nq + 1
    /\ UNCHANGED <<pc, err, args, todo, chunks_left, dg, resolved, inserted, file, loaded,
                   hashseed, load_res>>
    /\ UNCHANGED <<chatVars, remote, auxVars>>

\* DocGraph.query(question) on the loaded instance
QueryLoaded(q) ==
    /\ loaded # <<>>
    /\ nq < MaxQueries
    /\ LET r == query(loaded[1].kg, q, DefaultTopN, DefaultTopM, DefaultCoverage, hashseed)
       IN  /\ loaded' = <<[loaded[1] EXCEPT !.kg.graph = r.graph]>>
           /\ qres' = [on |-> "loaded", q |-> q, params |-> DefaultParams, exc |-> r.exc,
                       out |-> r.out]
    /\ nq' = nq + 1
    /\ UNCHANGED <<pc, err, args, todo, chunks_left, kg, dg, resolved, inserted, file,
                   hashseed, load_res>>
    /\ UNCHANGED <<chatVars, remote, auxVars>>

\* the chunks _build_graph hands to _add_to_graph: those of the Python
\* files that are not excluded, in the order rglob yields the files, then
\* those of the markdown files
RECURSIVE BuildChunks(_, _, _, _)
BuildChunks(py, md, root, exclude) ==
    IF py # <<>>
    THEN LET path == [dir |-> root, name |-> Head(py).name]
         IN  (IF is_excluded(exclude, path) THEN <<>> ELSE chunk_python(Head(py).tree, path))
                 \o BuildChunks(Tail(py), md, root, exclude)
    ELSE IF md # <<>>
    THEN LET path == [dir |-> root, name |-> Head(md).name]
         IN  (IF is_excluded(exclude, path) THEN <<>> ELSE chunk_markdown(Head(md).lines, path))
                 \o BuildChunks(py, Tail(md), root, exclude)
    ELSE <<>>

\* the arguments a caller passes to query besides the question: the
\* defaults, no sections, one section, one class, and the two ends of
\* file_coverage
QueryParams ==
    {DefaultParams,
     [DefaultParams EXCEPT !.top_n = 0],
     [DefaultParams EXCEPT !.top_n = 1],
     [DefaultParams EXCEPT !.top_m = 1],
     [DefaultParams EXCEPT !.cov = <<0, 1>>],
     [DefaultParams EXCEPT !.cov = <<2, 1>>]}

\* a DocGraph whose constructor has returned: the graph of the files of a
\* local directory that parse, under some exclude patterns
QueryInit ==
    /\ remote = NoRemote
    /\ AuxIdle
    /\ pc = "built"
    /\ err = "none"
    /\ args = [code_source |-> "repo", docs_source |-> "repo"]
    /\ todo = [py |-> <<>>, md |-> <<>>]
    /\ chunks_left = <<>>
    /\ \E py \in Listings(PyCatalog \ {PyBad}, MaxPyFiles),
          md \in Listings(MdCatalog, MaxMdFiles), exclude \in Excludes :
          LET chunks == BuildChunks(py, md, "repo", exclude)
          IN  /\ kg = add_to_graph(KnowledgeGraph, chunks)
              /\ inserted = Range(chunks)
              /\ dg = [code_root |-> "repo", docs_root |-> "repo",
                       exclude |-> exclude]
    /\ resolved = {"repo"}
    /\ file = NoFile
    /\ loaded = <<>>
    /\ qres = NoQuery
    /\ nq = 0
    /\ hashseed \in {0, 1}
    /\ load_res = NoLoad
    /\ ChatIdle
    /\ lossy = FALSE

\* DocGraph.query(question, top_n, top_m, file_coverage) on the built
\* instance
QueryWith(q, params) ==
    /\ pc = "built"
    /\ nq < MaxQueries
    /\ LET r == query(kg, q, params.top_n, params.top_m, params.cov, hashseed)
       IN  /\ kg' = [kg EXCEPT !.graph = r.graph]
           /\ qres' = [on |-> "built", q |-> q, params |-> params, exc |-> r.exc,
                       out |-> r.out]
    /\ nq' = nq + 1
    /\ UNCHANGED <<pc, err, args, todo, chunks_left, dg, resolved, inserted, file, loaded,
                   hashseed, load_res>>
    /\ UNCHANGED <<chatVars, remote, auxVars>>

QueryNext == \E q \in Questions, params \in QueryParams : QueryWith(q, params)

GraphNext ==
    \/ \E cs \in Sources, ds \in Sources, ex \in Excludes : DocGraphInit(cs, ds, ex)
    \/ ReadPyFile
    \/ AddChunk
    \/ BeginDocs
    \/ ReadMdFile
    \/ FinishBuild
    \/ PersistOpen
    \/ \E whole \in BOOLEAN : PersistWrite(whole)
    \/ \E f \in ForeignFiles(Instance) : ForeignFile(f)
    \/ Load
    \/ \E q \in Questions : QueryBuilt(q)
    \/ \E q \in Questions : QueryLoaded(q)

(***************************************************************************)
(* A chat turn: the input loop of the command line (ChatCLI.chat_session,  *)
(* display_streaming_response) and the WebSocket handler                   *)
(* (websocket_endpoint), on the ChatEngine of the process.  A handler      *)
(* gives up control at each await of an LLM call; the steps below are the  *)
(* stretches of code between those awaits.                                 *)
(***************************************************************************)
\* the sources the chat engine is built from
EngineRoot == "repo"
EngineChunks ==
    chunk_python(PyA.tree, [dir |-> EngineRoot, name |-> PyA.name])
        \o chunk_markdown(MdA.lines, [dir |-> EngineRoot, name |-> MdA.name])

\* DocGraph(code_source, docs_source, exclude_patterns) on those sources
EngineInstance ==
    [kg |-> add_to_graph(KnowledgeGraph, EngineChunks), code_root |-> EngineRoot,
     docs_root |-> EngineRoot, exclude |-> <<>>]

\* the replies of the shape <response>{"decision": "new|additional|none"}</response>
WellShaped ==
    {[raises |-> FALSE, content |-> <<OpenTag, doc, CloseTag>>] :
        doc \in {"{\"decision\": \"new\"}", "{\"decision\": \"additional\"}",
                 "{\"decision\": \"none\"}"}}

\* the max_history and max_contexts a session is created or loaded with
SessionLimits ==
    {[max_history |-> MaxHistory, max_contexts |-> MaxContexts],
     [max_history |-> 1, max_contexts |-> 1]}

\* the questions a user asks
ChatQuestions == {<<"x">>, <<"foo">>}

\* the replies of the decision model: a failed call, or a content
Content(c) == [raises |-> FALSE, content |-> c]
Replies ==
    {[raises |-> TRUE, content |-> <<>>],
     Content(<<OpenTag, "{\"decision\": \"new\"}", CloseTag>>),
     Content(<<OpenTag, "{\"decision\": \"additional\"}", CloseTag>>),
     Content(<<OpenTag, "{\"decision\": \"none\"}", CloseTag>>),
     Content(<<OpenTag, "{\"decision\": \"maybe\"}", CloseTag>>),
     Content(<<OpenTag, "{\"answer\": \"new\"}", CloseTag>>),
     Content(<<OpenTag, "sure", CloseTag>>),
     Content(<<OpenTag, "{\"decision\": \"new\"}", "{\"decision\": \"none\"}", CloseTag>>),
     Content(<<"{\"decision\": \"none\"}">>),
     Content(<<OpenTag, "{\"decision\": \"none\"}">>),
     Content(<<"sure", OpenTag, "{\"decision\": \"additional\"}", CloseTag, "done">>)}

Greeting == <<"hello">>
Answer == <<"answer">>
AIError == <<"AI", "Error">>

\* self.knowledge_assistant of the engine: the loaded instance when the
\* cache file existed, the built one otherwise
Assistant == IF loaded # <<>> THEN loaded[1].kg ELSE kg

\* the knowledge graph after a query left `graph` in its cross-edge field
AssistantQueried(graph) ==
    /\ kg' = IF loaded # <<>> THEN kg ELSE [kg EXCEPT !.graph = graph]
    /\ loaded' = IF loaded # <<>> THEN <<[loaded[1] EXCEPT !.kg.graph = graph]>>
                 ELSE loaded

\* the state of a chat process before a front end starts: the graph the
\* sources build to, and the cache file present or not
ChatProcess ==
    /\ remote = NoRemote
    /\ AuxIdle
    /\ pc = "built"
    /\ err = "none"
    /\ args = [code_source |-> EngineRoot, docs_source |-> EngineRoot]
    /\ todo = [py |-> <<>>, md |-> <<>>]
    /\ chunks_left = <<>>
    /\ kg = EngineInstance.kg
    /\ dg = [code_root |-> EngineRoot, docs_root |-> EngineRoot, exclude |-> <<>>]
    /\ resolved = {EngineRoot}
    /\ inserted = Range(EngineChunks)
    /\ file \in {NoFile, persist(EngineInstance)}
    /\ loaded = <<>>
    /\ qres = NoQuery
    /\ nq = 0
    /\ hashseed = 0
    /\ load_res = NoLoad
    /\ ChatIdle

\* the process where responses arrive whole, with two connections
ChatInit == ChatProcess /\ lossy = FALSE

\* the process where a response can fail in its middle, with one connection
StreamInit == ChatProcess /\ lossy = TRUE

\* the number of questions a run of the model takes
QuestionLimit == IF lossy THEN MaxStreamQuestions ELSE MaxQuestions

\* a front end starts on the session id: ChatCLI.run constructs the
\* ChatEngine, loads the session when its file exists and creates it
\* otherwise, and chat_session greets a new session; the web server holds
\* the session object in active_sessions
Start(fe, max_history, max_contexts) ==
    /\ ~running
    /\ runs < MaxRuns
    /\ asked < QuestionLimit
    /\ fe = "cli" => (max_history = MaxHistory /\ max_contexts = MaxContexts)
    /\ fe = "api" => lossy
    /\ LET continue == fe # "api" /\ session_file.exists
           s0 == IF continue
                 THEN SessionManager_load(session_file, max_history, max_contexts)
                 ELSE ChatSession(TRUE, max_history, max_contexts)
           greet == fe = "cli" /\ s0.is_new
           s1 == IF greet THEN add_message(s0, "assistant", Greeting) ELSE s0
       IN  /\ session' = s1
           /\ session_file' = IF greet THEN SessionManager_save(s1)
                              ELSE IF continue \/ fe = "api" THEN session_file
                              ELSE NoSessionFile
           /\ said' = s1.messages
    \* ChatEngine.__init__: load the cache file when it exists, build and
    \* persist otherwise
    /\ IF file # NoFile
       THEN loaded' = load(file).val /\ file' = file
       ELSE loaded' = <<>> /\ file' = persist(EngineInstance)
    /\ frontend' = fe
    /\ running' = TRUE
    /\ runs' = runs + 1
    /\ exited' = NoExit
    /\ handlers' = [h \in Handlers |-> Idle]
    /\ UNCHANGED <<pc, err, args, todo, chunks_left, kg, dg, resolved, inserted, qres, nq,
                   hashseed, load_res, remote, auxVars, asked, lossy>>

\* a question arrives: session.add_message("user", ...), then
\* engine.get_context_decision sends the decision call; the caller of
\* respond calls it at once, and respond sends the decision call
Receive(h, q) ==
    /\ running
    /\ h \in HandlersOf(frontend)
    /\ handlers[h].pc = "idle"
    \* the second connection is the one that is used while the first is busy
    /\ h = "ws2" => handlers["ws1"].pc # "idle"
    /\ asked < QuestionLimit
    /\ session' = add_message(session, "user", q)
    /\ said' = Said(said, "user", q)
    /\ handlers' = [handlers EXCEPT ![h] =
          [Idle EXCEPT !.pc = IF h = "api" THEN "stream_deciding" ELSE "deciding",
                       !.question = q,
                       !.before = Len(session.context_manager.context_history)]]
    /\ asked' = asked + 1
    /\ UNCHANGED <<graphVars, remote, auxVars, frontend, lossy, running, session_file, runs, exited>>

\* the handler from the return of its own update_context call on: u is
\* what the call returned or raised.  An exception ends the handler: the
\* command line exits, the WebSocket handler disconnects.
FirstUpdate(h, reply, decision, u) ==
    /\ AssistantQueried(u.graph)
    /\ session' = u.session
    /\ handlers' = [handlers EXCEPT ![h] =
          [@ EXCEPT !.pc = IF u.exc # "none" \/
                              get_status(u.session.context_manager).exc # "none"
                           THEN "failed" ELSE "stream_deciding",
                    !.decision = decision,
                    !.shaped = reply \in WellShaped,
                    !.decisions = 1]]
    /\ running' = (running /\ ~(frontend = "cli" /\ handlers'[h].pc = "failed"))
    \* the exception leaves display_streaming_response, chat_session, run and
    \* asyncio.run
    /\ exited' = IF frontend = "cli" /\ handlers'[h].pc = "failed"
                 THEN [how |-> "error", code |-> TracebackCode] ELSE exited

\* the reply of the first decision call arrives: decide returns,
\* update_context runs, the status is read, and generate_response_stream
\* sends the second decision call
DecisionReply(h, reply) ==
    /\ running
    /\ handlers[h].pc = "deciding"
    /\ FirstUpdate(h, reply, decide(reply),
                   update_context(session, Assistant, handlers[h].question,
                                  decide(reply), hashseed))
    /\ UNCHANGED <<pc, err, args, todo, chunks_left, dg, resolved, inserted, file, qres, nq,
                   hashseed, load_res, remote, auxVars, frontend, lossy, session_file, asked, runs, said>>

\* what becomes of a send_json of the WebSocket handler: it returns, or it
\* raises and the send of the error message returns, or both raise; the
\* command line sends nothing
Sends(h) == IF h = "cli" \/ ~lossy THEN {"ok"} ELSE {"ok", "reported", "lost"}

\* a generator whose except clause yields nothing
YieldedNoError(h, chunk, last, raised, send) ==
    IF send = "lost" THEN Idle
    ELSE [handlers[h] EXCEPT
            !.pc = IF last \/ send = "reported" THEN "received" ELSE "streaming",
            !.full_response = IF raised THEN @ ELSE Append(@, chunk),
            !.raised = raised,
            !.abandoned = (send = "reported" /\ ~last),
            !.prompt = IF last \/ send = "reported" THEN NoPrompt ELSE @]

\* the handler takes a chunk from generate_response_stream:
\* full_response.append(chunk), and the WebSocket handler sends it.  `last`
\* says that the generator ends after this chunk.  A send that raises ends
\* the loop: when the error message can be sent the handler goes on to
\* add the message, otherwise the exception leaves the handler.
Yielded(h, chunk, last, raised, send) ==
    IF send = "lost" THEN Idle
    ELSE [handlers[h] EXCEPT
            !.pc = IF last \/ send = "reported" THEN "received" ELSE "streaming",
            !.full_response = Append(@, chunk),
            !.raised = raised,
            !.abandoned = (send = "reported" /\ ~last),
            !.prompt = IF last \/ send = "reported" THEN NoPrompt ELSE @]

\* a generator that builds its prompt before update_context runs
StreamUpdateEarlyPrompt(h, reply, u) ==
    /\ AssistantQueried(u.graph)
    /\ session' = u.session
    /\ IF u.exc # "none"
       THEN \E send \in Sends(h) :
               handlers' = [handlers EXCEPT ![h] =
                   [Yielded(h, AIError, TRUE, TRUE, send) EXCEPT
                       !.decide_raised = (lossy /\ send # "lost" /\ reply.raises)]]
       ELSE handlers' = [handlers EXCEPT ![h] =
               [@ EXCEPT !.pc = "streaming", !.shaped = TRUE, !.decisions = @ + 1,
                         !.decide_raised = (lossy /\ reply.raises),
                         !.prompt = IF lossy THEN Prompt(session) ELSE NoPrompt]]

\* generate_response_stream, and respond, from the return of its
\* update_context call on.  An exception is caught: the stream yields the
\* error text as its only chunk (respond returns it).  Otherwise the
\* prompt is built and the generation call is sent.
StreamUpdate(h, reply, u) ==
    /\ AssistantQueried(u.graph)
    /\ session' = u.session
    /\ IF u.exc # "none"
       THEN \E send \in Sends(h) :
               handlers' = [handlers EXCEPT ![h] =
                   [Yielded(h, AIError, TRUE, TRUE, send) EXCEPT
                       !.decide_raised = (lossy /\ send # "lost" /\ reply.raises)]]
       ELSE handlers' = [handlers EXCEPT ![h] =
               [@ EXCEPT !.pc = "streaming", !.shaped = TRUE, !.decisions = @ + 1,
                         !.decide_raised = (lossy /\ reply.raises),
                         !.prompt = IF lossy THEN Prompt(u.session) ELSE NoPrompt,
                         \* (kept for the status line of the command line)
                         !.stream_decision = IF h = "cli" THEN decide(reply) ELSE ""]]

\* the reply of the decision call of generate_response_stream arrives:
\* decide returns and update_context runs
StreamDecisionReply(h, reply) ==
    /\ running
    /\ handlers[h].pc = "stream_deciding"
    /\ StreamUpdate(h, reply, update_context(session, Assistant, handlers[h].question,
                                      decide(reply), hashseed))
    /\ UNCHANGED <<pc, err, args, todo, chunks_left, dg, resolved, inserted, file, qres, nq,
                   hashseed, load_res, remote, auxVars, frontend, lossy, running, session_file, asked, runs, exited, said>>

\* the response of the generation call delivers a chunk with content: the
\* generator yields it
StreamChunk(h, send) ==
    /\ running
    /\ handlers[h].pc = "streaming"
    /\ Len(handlers[h].full_response) < MaxChunks
    /\ handlers' = [handlers EXCEPT ![h] = Yielded(h, Answer, FALSE, FALSE, send)]
    /\ UNCHANGED <<graphVars, remote, auxVars, frontend, lossy, running, session, session_file, asked, runs, exited, said>>

\* the generation call, or the iteration of its response, raises: the
\* generator yields the error text and ends
StreamRaise(h, send) ==
    /\ running
    /\ handlers[h].pc = "streaming"
    /\ (lossy /\ h # "api") \/ handlers[h].full_response = <<>>
    /\ handlers' = [handlers EXCEPT ![h] = Yielded(h, AIError, TRUE, TRUE, send)]
    /\ UNCHANGED <<graphVars, remote, auxVars, frontend, lossy, running, session, session_file, asked, runs, exited, said>>

\* the response of the generation call is exhausted: the generator ends
StreamEnd(h) ==
    /\ running
    /\ handlers[h].pc = "streaming"
    /\ lossy \/ handlers[h].full_response # <<>>
    /\ handlers' = [handlers EXCEPT ![h] = [@ EXCEPT !.pc = "received", !.prompt = NoPrompt]]
    /\ UNCHANGED <<graphVars, remote, auxVars, frontend, lossy, running, session, session_file, asked, runs, exited, said>>

\* after the loop over the stream: the handler joins full_response, adds
\* it as the assistant message and saves the session; the caller of
\* respond has its answer
AddReply(h) ==
    /\ running
    /\ handlers[h].pc = "received"
    /\ LET complete_response == Flatten(handlers[h].full_response)
       IN  IF h = "api"
           THEN UNCHANGED <<session, session_file, said>>
           ELSE /\ session' = add_message(session, "assistant", complete_response)
                /\ session_file' = SessionManager_save(session')
                /\ said' = Said(said, "assistant", complete_response)
    /\ handlers' = [handlers EXCEPT ![h] = Idle]
    /\ UNCHANGED <<graphVars, remote, auxVars, frontend, lossy, running, asked, runs, exited>>

\* KeyboardInterrupt while the command line waits in a turn: the input
\* loop breaks, the generator is closed.  Where the interpreter raises it
\* in the coroutine the except clause of chat_session takes it and run
\* returns; where asyncio.run cancels the task instead, the cancellation
\* passes the except clause and asyncio.run raises KeyboardInterrupt.
Interrupt ==
    /\ running
    /\ runs < MaxRuns
    /\ frontend = "cli"
    /\ handlers["cli"].pc \in {"deciding", "stream_deciding", "streaming"}
    /\ running' = FALSE
    /\ \E code \in {ReturnCode, SigintCode} : exited' = [how |-> "interrupt", code |-> code]
    /\ handlers' = [handlers EXCEPT !["cli"] = Idle]
    /\ UNCHANGED <<graphVars, remote, auxVars, frontend, lossy, session, session_file, asked, runs, said>>

\* the front end stops while no turn is in progress: /exit on the command
\* line, the server process ending
Exit ==
    /\ running
    /\ runs < MaxRuns
    /\ \A h \in HandlersOf(frontend) : handlers[h].pc \in {"idle", "failed"}
    /\ running' = FALSE
    /\ exited' = IF frontend = "cli" THEN [how |-> "exit", code |-> ReturnCode] ELSE exited
    /\ UNCHANGED <<graphVars, remote, auxVars, frontend, lossy, session, session_file, handlers, asked, runs, said>>

\* the command line is run with --list: list_sessions_cmd prints the table
\* of the saved sessions and run returns
ListSessions ==
    /\ ~running
    /\ exited' = [how |-> "list", code |-> ReturnCode]
    /\ UNCHANGED <<graphVars, remote, auxVars, frontend, lossy, running, session, session_file, handlers,
                   asked, runs, said>>

\* the command line is run with --delete ID: SessionManager.delete_session
\* unlinks the file of the session when there is one, and run returns
DeleteSession ==
    /\ ~running
    /\ session_file' = NoSessionFile
    /\ exited' = [how |-> "delete", code |-> ReturnCode]
    /\ UNCHANGED <<graphVars, remote, auxVars, frontend, lossy, running, session, handlers, asked, runs, said>>

\* the command line is run with --continue ID and the session has no file:
\* open raises FileNotFoundError inside SessionManager.load, run prints the
\* error and returns before it constructs the engine
ContinueMissing ==
    /\ ~running
    /\ ~session_file.exists
    /\ exited' = [how |-> "load_failed", code |-> ReturnCode]
    /\ UNCHANGED <<graphVars, remote, auxVars, frontend, lossy, running, session, session_file, handlers,
                   asked, runs, said>>

ChatNext ==
    \/ \E fe \in {"cli", "web", "api"}, limits \in SessionLimits :
          Start(fe, limits.max_history, limits.max_contexts)
    \/ \E h \in Handlers, q \in ChatQuestions : Receive(h, q)
    \/ \E h \in Handlers, reply \in Replies : DecisionReply(h, reply)
    \/ \E h \in Handlers, reply \in Replies : StreamDecisionReply(h, reply)
    \/ \E h \in Handlers : \E send \in Sends(h) : StreamChunk(h, send)
    \/ \E h \in Handlers : \E send \in Sends(h) : StreamRaise(h, send)
    \/ \E h \in Handlers : StreamEnd(h)
    \/ \E h \in Handlers : AddReply(h)
    \/ Interrupt
    \/ Exit
    \/ ListSessions
    \/ DeleteSession
    \/ ContinueMissing

vars == <<graphVars, chatVars, remote, auxVars>>

SpecGraph == GraphInit /\ [][GraphNext]_vars

\* a process that resolves GitHub URLs and builds nothing
ResolverInit ==
    /\ GraphInit
    /\ todo = [py |-> <<>>, md |-> <<>>]
    /\ hashseed = 0

SpecResolver == ResolverInit /\ [][ResolverNext]_vars

SpecQuery == QueryInit /\ [][QueryNext]_vars

SpecChat == ChatInit /\ [][ChatNext]_vars

SpecStream == StreamInit /\ [][ChatNext]_vars

\* a step of generate_response_stream in handler h: a reply of a call it
\* awaits arrives, or the call raises.  Every reply of the decision call
\* ends the wait for it, so one of them stands for its arrival.
StreamStep(h) ==
    \/ StreamDecisionReply(h, Content(<<OpenTag, "{\"decision\": \"none\"}", CloseTag>>))
    \/ \E send \in Sends(h) : StreamChunk(h, send)
    \/ \E send \in Sends(h) : StreamRaise(h, send)
    \/ StreamEnd(h)

\* every call the generator awaits returns or raises, and the event loop
\* resumes the coroutine of the one handler that is in a turn
SpecStreamFair == SpecStream /\ WF_vars(\E h \in Handlers : StreamStep(h))

(***************************************************************************)
(* Properties of the graph: build, index file, query.                      *)
(***************************************************************************)

\* what query(q) returns on the built instance: [exc, out]
OriginalOutcome(q) ==
    LET r == query(kg, q, DefaultTopN, DefaultTopM, DefaultCoverage, hashseed)
    IN  [exc |-> r.exc, out |-> r.out]

\* C1: a query on the instance loaded from the file the built instance
\* persisted ends as the same query on the built instance ends: the same
\* rendered context, and no exception where the original raises none.
C1_LoadedQueryAsOriginal ==
    qres.on = "loaded" => [exc |-> qres.exc, out |-> qres.out] = OriginalOutcome(qres.q)

\* C5: a query on the built instance leaves every field of its
\* KnowledgeGraph as it was, the key set of the cross-edges included.
C5_QueryReadOnly ==
    [][(nq' # nq /\ qres'.on = "built") => kg' = kg]_vars

\* C6: adding a chunk identical to one added before leaves nodes, the
\* registries, parent_map and every postings list unchanged, and documents
\* grows by exactly one entry.
C6_DuplicateInsertion ==
    [][(chunks_left # <<>> /\ Head(chunks_left) \in inserted /\ kg' # kg) =>
          /\ kg'.nodes = kg.nodes
          /\ kg'.class_registry = kg.class_registry
          /\ kg'.function_registry = kg.function_registry
          /\ kg'.parent_map = kg.parent_map
          /\ kg'.index = kg.index
          /\ Len(kg'.documents) = Len(kg.documents) + 1]_vars

\* C7: a node that is in nodes stays there with the content and the
\* metadata it was inserted with.
C7_NodeImmutable ==
    [][\A id \in DOMAIN kg.nodes :
          id \in DOMAIN kg'.nodes /\ kg'.nodes[id] = kg.nodes[id]]_vars

\* C10: a constructor call with one existing source and None for the other
\* raises nothing; a call with None for both raises ValueError with nothing
\* resolved and nothing added to the graph.
C10_OneSourceSuffices ==
    /\ (args \in {[code_source |-> "repo", docs_source |-> None],
                  [code_source |-> None, docs_source |-> "repo"]}) => err = "none"
    /\ (args = [code_source |-> None, docs_source |-> None] /\ pc # "new") =>
          (pc = "failed" /\ err = "ValueError" /\ resolved = {} /\ kg = KnowledgeGraph)

(***************************************************************************)
(* Properties of a chat turn and of the session.                           *)
(***************************************************************************)

\* C2: when the response stream of the first question put to the session
\* closes, decide has run once for the question, and if it returned
\* 'additional' while the manager held fewer than max_contexts entries,
\* the manager holds one entry more than before the question and its
\* last_action is "append".
C2_OneDecisionOneUpdate ==
    [][\A h \in Handlers :
          (asked = 1 /\ handlers[h].pc = "streaming" /\ handlers'[h].pc = "received") =>
             /\ handlers[h].decisions = 1
             /\ (/\ handlers[h].decision = "additional"
                 /\ handlers[h].before < session.context_manager.max_contexts) =>
                   /\ Len(session'.context_manager.context_history) =
                          handlers[h].before + 1
                   /\ session'.context_manager.last_action = "append"]_vars

\* C3: what decide returns is one of 'new', 'additional', 'none', and it is
\* 'new' whenever the call failed or the reply was not of the shape asked
\* for, after which update_context has replaced the context.
C3_DecideFallsBackToNew ==
    \A h \in Handlers :
        (asked = 1 /\ handlers[h].decisions = 1) =>
            /\ handlers[h].decision \in {"new", "additional", "none"}
            /\ ~handlers[h].shaped =>
                  /\ handlers[h].decision = "new"
                  /\ handlers[h].pc = "stream_deciding" =>
                        session.context_manager.last_action = "replace"

\* a handler is between the start of the decision call of its question and
\* the close of the response stream
InFlight(h) == handlers[h].pc \in {"deciding", "stream_deciding", "streaming"}

\* C4: the decision call of a question of the session never starts while
\* the response stream of another question of the session has not closed.
C4_QuestionsSerialized ==
    \A h1, h2 \in Handlers : (InFlight(h1) /\ InFlight(h2)) => h1 = h2

\* C8: the context history of the session of a running front end, created
\* or restored, holds at most max_contexts entries.
C8_ContextsBounded ==
    running =>
        Len(session.context_manager.context_history) <= session.context_manager.max_contexts

\* C9: the messages of the session of a running front end, created or
\* restored, are at most max_history, and they are the messages most
\* recently given to the session, in the order they were given.
C9_HistoryBounded ==
    running =>
        /\ Len(session.messages) <= session.max_history
        /\ session.messages = LastN(said, Len(session.messages))


(***************************************************************************)
(* Properties of retrieval, of the index file and of the build.            *)
(***************************************************************************)

\* the retrieved sections of question q have cross-edges to classes and no
\* token of q occurs in the content of any of those classes
NoCandidateScores(G, q) ==
    LET found == bm25_search(G, q, DefaultTopN, {"class", "function"})
        ids == [i \in 1..Len(found.val) |-> found.val[i].id]
        cands == UNION {IF ids[i] \in DOMAIN G.graph THEN Range(G.graph[ids[i]]) ELSE {}
                        : i \in 1..Len(ids)}
    IN  /\ found.exc = "none"
        /\ cands # {}
        /\ \A c \in cands : Range(tokenize(q)) \cap Range(tokenize(G.nodes[c].content)) = {}

\* C11: a query on the built instance whose retrieved sections link to
\* classes none of which contains a token of the question raises nothing
\* and renders a context that has no Related Classes section.
C11_NoScoresNoClasses ==
    (qres.on = "built" /\ NoCandidateScores(kg, qres.q)) =>
        /\ qres.exc = "none"
        /\ \A i \in 1..Len(qres.out) : qres.out[i].head # "# Related Classes"


(***************************************************************************)
(* Properties of the response stream.                                      *)
(***************************************************************************)

\* generate_response_stream runs in handler h
Generating(h) == handlers[h].pc \in {"stream_deciding", "streaming"}

\* the chunks yielded so far hold the error text at most once and as the
\* last chunk
ErrorChunkLast(h) ==
    \A i \in 1..Len(handlers[h].full_response) :
        handlers[h].full_response[i] = AIError => i = Len(handlers[h].full_response)

\* the stream of handler h was read to its end and its last chunk is the
\* error text
EndsWithError(h) ==
    /\ handlers[h].full_response # <<>>
    /\ handlers[h].full_response[Len(handlers[h].full_response)] = AIError

\* C12: generate_response_stream always terminates; when an exception
\* reaches its except clause (raised by retrieval, by the generation call
\* or in the middle of streaming) the stream holds exactly one error chunk,
\* its last chunk, and no content chunk follows an error chunk.  An
\* exception of the decision call is absorbed by decide.
C12_ErrorChunkIsLast ==
    /\ [](\A h \in Handlers :
            /\ ErrorChunkLast(h)
            /\ (handlers[h].pc = "received" /\ handlers[h].raised) => EndsWithError(h))
    /\ (\E h \in Handlers : Generating(h)) ~> (\A h \in Handlers : ~Generating(h))

\* the generation call raised after a content chunk and the handler read
\* the stream to its end
C12_Witness ==
    \E h \in Handlers :
        /\ handlers[h].pc = "received"
        /\ handlers[h].raised
        /\ handlers[h].full_response = <<Answer, AIError>>

\* C12 as stated: an exception at any point, the decision call included,
\* ends the stream with exactly one error chunk
C12_AnyExceptionOneError ==
    /\ [](\A h \in Handlers :
            /\ ErrorChunkLast(h)
            /\ (/\ handlers[h].pc = "received"
                /\ ~handlers[h].abandoned
                /\ handlers[h].raised \/ handlers[h].decide_raised) => EndsWithError(h))
    /\ (\E h \in Handlers : Generating(h)) ~> (\A h \in Handlers : ~Generating(h))


\* C13: the assistant message of a turn is added to the session only by a
\* handler that read its response stream to the end: a handler that left
\* the stream at a chunk (an interrupt, a disconnect, a send that raised)
\* adds nothing.
C13_NoPartialReply ==
    [][\A h \in Handlers :
          (/\ handlers[h].pc = "received"
           /\ handlers'[h].pc = "idle"
           /\ said' = Said(said, "assistant", Flatten(handlers[h].full_response)))
          => ~handlers[h].abandoned]_vars


\* C14: a process that finds the index file and loads it while another
\* runs persist on the path reads a whole file, the one persist replaces
\* or the one it writes: never a file without its header or its data.
C14_LoadSeesWholeFile ==
    load_res # NoLoad =>
        /\ load_res.read.magic # ""
        /\ load_res.read.body # <<>>


\* C15: a load of a file whose magic is not 'C4AIV2' or whose header
\* version is not the cache version raises and yields no instance; a load
\* that yields an instance read a file with that magic and that version.
C15_LoadChecksHeader ==
    load_res # NoLoad =>
        /\ (load_res.read.magic # MAGIC_HEADER \/ load_res.read.version # CACHE_VERSION)
              => (load_res.exc # "none" /\ loaded = <<>>)
        /\ loaded # <<>> =>
              (load_res.read.magic = MAGIC_HEADER /\ load_res.read.version = CACHE_VERSION)

\* a file with the magic and version 1 in its header was loaded, and the
\* load raised
C15_Witness ==
    /\ load_res.read.magic = MAGIC_HEADER
    /\ load_res.read.version = 1
    /\ load_res.read.body # <<>>
    /\ load_res.exc = "ValueError"


Updates(h) ==
    /\ handlers[h].pc = "deciding"
    /\ handlers'[h].pc \in {"stream_deciding", "failed"}

\* the context manager after update_context(question, d) when the query,
\* if one is made, ends as r, with `appended` giving the list after an
\* 'additional' decision
AfterUpdate(cm, d, r, appended(_, _)) ==
    IF d = "none" \/ r.exc # "none" THEN cm
    ELSE IF d = "new"
    THEN [cm EXCEPT !.context_history = <<r.out>>, !.last_action = "replace"]
    ELSE [cm EXCEPT !.context_history = appended(@, r.out), !.last_action = "append"]

\* C18: update_context with decision 'none' makes no query and leaves the
\* context manager as it was; with 'new' and a query that returns,
\* context_history becomes the one context of the query; with 'additional'
\* the context of the query is appended and the list is cut to its last
\* max_contexts entries.  A query that raises leaves the manager as it was.
C18_UpdateByDecision ==
    [][\A h \in Handlers : Updates(h) =>
          /\ handlers'[h].decision = "none" => (kg' = kg /\ loaded' = loaded)
          /\ handlers'[h].decision \in {"none", "new", "additional"} =>
                session'.context_manager =
                    AfterUpdate(session.context_manager, handlers'[h].decision,
                                query(Assistant, handlers[h].question, DefaultTopN,
                                      DefaultTopM, DefaultCoverage, hashseed),
                                LAMBDA hist, c :
                                    LastN(Append(hist, c),
                                          session.context_manager.max_contexts))]_vars

\* an 'additional' decision was applied to a manager that held
\* max_contexts contexts
C18_Witness ==
    \E h \in Handlers :
        /\ handlers[h].pc = "stream_deciding"
        /\ handlers[h].decision = "additional"
        /\ handlers[h].before = session.context_manager.max_contexts
        /\ session.context_manager.last_action = "append"
        /\ Len(session.context_manager.context_history) = handlers[h].before

\* C18 as stated: with 'additional' the list after the call is the list
\* before it with the context of the query at its end
C18_AdditionalAppends ==
    [][\A h \in Handlers : Updates(h) =>
          /\ handlers'[h].decision = "none" => (kg' = kg /\ loaded' = loaded)
          /\ handlers'[h].decision \in {"none", "new", "additional"} =>
                session'.context_manager =
                    AfterUpdate(session.context_manager, handlers'[h].decision,
                                query(Assistant, handlers[h].question, DefaultTopN,
                                      DefaultTopM, DefaultCoverage, hashseed),
                                LAMBDA hist, c : Append(hist, c))]_vars


\* C19: a Python file that ast.parse rejects is skipped: the build goes on
\* to the files after it and the constructor raises no SyntaxError.
C19_UnparsableFileSkipped ==
    /\ err # "SyntaxError"
    /\ (pc = "failed" /\ err = "SyntaxError") => todo.py = <<>>


\* C20: a command-line process that ended because --continue named a
\* session that could not be loaded ended with a non-zero exit code, and
\* one that ended on --list, --delete or /exit ended with exit code 0.
C20_ExitCodes ==
    /\ exited.how = "load_failed" => exited.code # 0
    /\ exited.how \in {"list", "delete", "exit"} => exited.code = 0


\* C21: an exception of the retrieval path is never turned into a reply: the
\* step of generate_response_stream, or of respond, that runs decide and
\* update_context hands no 'AI Error' text to its caller.  decide raises
\* nothing, so an error text out of that step is the error of query.
C21_RetrievalErrorSurfaces ==
    [][\A h \in Handlers :
          handlers[h].pc = "stream_deciding" =>
              AIError \notin Range(handlers'[h].full_response)]_vars


\* the content of the last user message of a history, empty when it has none
LastUserQuestion(messages) ==
    LET users == SelectSeq(messages, LAMBDA m : m.role = "user")
    IN  IF users = <<>> THEN <<>> ELSE users[Len(users)].content

\* handler h calls decide in this step, the new question being the last
\* message of the session
DecideCalled(h) ==
    /\ handlers'[h].pc \in {"deciding", "stream_deciding"}
    /\ handlers'[h].pc # handlers[h].pc
    /\ session'.messages # <<>>
    /\ session'.messages[Len(session'.messages)] =
           [role |-> "user", content |-> handlers'[h].question]

\* C22: when decide is called with the new question already appended to the
\* messages of the session, the last_question of its prompt is the content
\* of the most recent user message before the new question, and empty when
\* there is none.
C22_LastQuestionIsPriorUserQuestion ==
    [][\A h \in Handlers :
          DecideCalled(h) =>
              DecisionPrompt(session', handlers'[h].question).last_question =
                  LastUserQuestion(SubSeq(session'.messages, 1, Len(session'.messages) - 1))]_vars


TurnCompleted(h) ==
    /\ h # "api"
    /\ handlers[h].pc = "received"
    /\ handlers'[h].pc = "idle"
    /\ running'

\* the two messages of the turn handler h ends
TurnQuestion(h) == [role |-> "user", content |-> handlers[h].question]
TurnReply(h) == [role |-> "assistant", content |-> Flatten(handlers[h].full_response)]

ClassStart(out) ==
    IF \E i \in 1..Len(out) : out[i].head = "# Related Classes"
    THEN CHOOSE i \in 1..Len(out) : out[i].head = "# Related Classes"
    ELSE Len(out) + 1

\* the entries of the Documentation Context and of the Related Classes
DocEntries(out) == SubSeq(out, 2, ClassStart(out) - 1)
ClassEntries(out) == SubSeq(out, ClassStart(out) + 1, Len(out))

\* the markdown sections of G that hold a token of question q
SectionsFor(G, q) ==
    {id \in DOMAIN G.nodes :
        /\ G.nodes[id].meta.type = "md"
        /\ Range(tokenize(G.nodes[id].content)) \cap Range(tokenize(q)) # {}}

\* the classes of the registry whose name is a token of one of the sections
\* and whose content holds a token of q
NamedMatching(G, q, sections) ==
    {cid \in DOMAIN G.nodes :
        /\ \E id \in sections :
              \E t \in Range(tokenize(G.nodes[id].content)) :
                  t \in DOMAIN G.class_registry /\ G.class_registry[t] = cid
        /\ Range(tokenize(G.nodes[cid].content)) \cap Range(tokenize(q)) # {}}

\* the render shows section id: by itself, or within its whole file
SectionShown(G, out, id) ==
    \E i \in 1..Len(DocEntries(out)) :
        LET e == DocEntries(out)[i]
        IN  /\ e.name = PathName(G.nodes[id].meta.path)
            /\ \/ e.head = "##" /\ e.body = G.nodes[id].content
               \/ e.head = "## FULL FILE:"

\* the classes among cids whose body is an entry of the Related Classes
Offered(G, out, cids) ==
    {cid \in cids :
        \E i \in 1..Len(ClassEntries(out)) : ClassEntries(out)[i].body = G.nodes[cid].content}

Min(a, b) == IF a <= b THEN a ELSE b

C26_FailedFetchRaises ==
    remote.res.fetch_failed => (remote.res.exc # "none" /\ ~remote.res.returned)


\* C27: every node id in a postings list of the inverted index, among the
\* values of class_registry or function_registry, among the keys of
\* parent_map, or among the keys or the members of the cross-edges is a
\* key of nodes.
C27_IdsAreNodes ==
    /\ \A t \in DOMAIN kg.index : Range(kg.index[t]) \subseteq DOMAIN kg.nodes
    /\ \A n \in DOMAIN kg.class_registry : kg.class_registry[n] \in DOMAIN kg.nodes
    /\ \A n \in DOMAIN kg.function_registry : kg.function_registry[n] \in DOMAIN kg.nodes
    /\ DOMAIN kg.parent_map \subseteq DOMAIN kg.nodes
    /\ DOMAIN kg.graph \subseteq DOMAIN kg.nodes
    /\ \A m \in DOMAIN kg.graph : Range(kg.graph[m]) \subseteq DOMAIN kg.nodes

\* a build has returned a graph with postings, both registries, a parent
\* and a cross-edge
C27_Witness ==
    /\ pc = "built"
    /\ DOMAIN kg.index # {}
    /\ DOMAIN kg.class_registry # {}
    /\ DOMAIN kg.function_registry # {}
    /\ DOMAIN kg.parent_map # {}
    /\ \E m \in DOMAIN kg.graph : kg.graph[m] # <<>>


\* the markdown nodes of a graph, and the cross-edges of one of them
MarkdownNodes(G) == {id \in DOMAIN G.nodes : G.nodes[id].meta.type = "md"}
CrossEdges(G, m) == Range(DictGet(G.graph, m, <<>>))

\* C28: in the graph a build returns, the cross-edges of every markdown
\* node lead to classes of the final class_registry, and every name of that
\* registry that is a token of the node has its class among them, in
\* whatever order the files were visited.
C28_CrossEdgesMatchRegistry ==
    pc = "built" =>
        \A m \in MarkdownNodes(kg) :
            /\ CrossEdges(kg, m) \subseteq
                   {kg.class_registry[n] : n \in DOMAIN kg.class_registry}
            /\ \A n \in DOMAIN kg.class_registry :
                   n \in Range(tokenize(kg.nodes[m].content)) =>
                       kg.class_registry[n] \in CrossEdges(kg, m)

\* a build of two Python files and a markdown file has returned, and a
\* section of the markdown file names a class of each Python file
C28_Witness ==
    /\ pc = "built"
    /\ Cardinality(DOMAIN kg.class_registry) >= 2
    /\ \E m \in MarkdownNodes(kg) : Cardinality(CrossEdges(kg, m)) >= 2


\* the ids of the sections query retrieves for q, and those of one file
RetrievedIds(G, q, top_n) ==
    LET found == bm25_search(G, q, top_n, {"class", "function"})
    IN  {found.val[i].id : i \in 1..Min(top_n, Len(found.val))}
RetrievedOf(G, ids, path) == {id \in ids : G.nodes[id].meta.path = path}

\* the number of chunks of the file a node was cut from
TotalChunks(G, id) ==
    Len(chunk_markdown(G.nodes[id].meta.full_content, G.nodes[id].meta.path))

\* the number of entries of the Documentation Context under header `head`
\* for the file `name`
EntriesOf(out, head, name) ==
    Cardinality({i \in 1..Len(DocEntries(out)) :
                    DocEntries(out)[i].head = head /\ DocEntries(out)[i].name = name})

\* C29: for each file with a retrieved section, the render has one FULL
\* FILE entry and no section entry of the file when the retrieved sections
\* of the file divided by its chunks reach file_coverage, and otherwise one
\* entry for each retrieved section of the file and no FULL FILE entry; a
\* file_coverage of 0 promotes every such file and one above 1 none.
C29_CoveragePromotion ==
    (qres.on = "built" /\ qres.exc = "none") =>
        LET ids == RetrievedIds(kg, qres.q, qres.params.top_n)
            cov == qres.params.cov
        IN  \A id \in ids :
                LET path == kg.nodes[id].meta.path
                    mine == RetrievedOf(kg, ids, path)
                    promoted == Cardinality(mine) * cov[2] >= cov[1] * TotalChunks(kg, id)
                IN  /\ promoted =>
                          /\ EntriesOf(qres.out, "## FULL FILE:", PathName(path)) = 1
                          /\ EntriesOf(qres.out, "##", PathName(path)) = 0
                    /\ ~promoted =>
                          /\ EntriesOf(qres.out, "## FULL FILE:", PathName(path)) = 0
                          /\ EntriesOf(qres.out, "##", PathName(path)) = Cardinality(mine)
                          /\ \A s \in mine :
                                \E i \in 1..Len(DocEntries(qres.out)) :
                                    /\ DocEntries(qres.out)[i].head = "##"
                                    /\ DocEntries(qres.out)[i].body = kg.nodes[s].content
                    /\ cov[1] = 0 => promoted
                    /\ cov[1] > cov[2] => ~promoted

\* a query under the default file_coverage retrieved the two sections of a
\* file of two chunks: the render has the whole file and no section of it
C29_Witness ==
    /\ qres.on = "built"
    /\ qres.exc = "none"
    /\ qres.params.cov = DefaultCoverage
    /\ Cardinality(RetrievedIds(kg, qres.q, qres.params.top_n)) = 2
    /\ \E id \in RetrievedIds(kg, qres.q, qres.params.top_n) : TotalChunks(kg, id) = 2
    /\ \E i \in 1..Len(DocEntries(qres.out)) : DocEntries(qres.out)[i].head = "## FULL FILE:"

\* the render that has the Documentation Context header and nothing else
HeaderOnlyRender == <<[head |-> "# Documentation Context", name |-> "", body |-> <<>>]>>

\* no token of question q is in the inverted index of G
NoKnownToken(G, q) == \A t \in Range(tokenize(q)) : SearchDf(G, t) = 0

\* C30: on every built graph, the one of a build that found no chunk
\* included, a query with an empty question, with a question none of whose
\* tokens is indexed, or with top_n = 0 raises nothing and returns the
\* render of the header alone.
C30_EmptyRetrievalHeaderOnly ==
    (/\ qres.on = "built"
     /\ \/ tokenize(qres.q) = <<>>
        \/ NoKnownToken(kg, qres.q)
        \/ qres.params.top_n = 0)
    => (qres.exc = "none" /\ qres.out = HeaderOnlyRender)


(***************************************************************************)
(* Chunker.chunk_python on its own: the parsed modules it may be given are *)
(* the single top-level definitions with at most MaxNesting levels of      *)
(* definitions inside, each body holding at most MaxBody definitions.      *)
(***************************************************************************)
MaxNesting == 2
MaxBody == 2

DefHeads ==
    {[kind |-> "class", name |-> "Foo"], [kind |-> "class", name |-> "Bar"],
     [kind |-> "def", name |-> "m"]}

\* the sequences of at most n members of S
Bodies(S, n) == UNION {[1..k -> S] : k \in 0..n}

\* the definitions with at most depth levels of definitions inside
RECURSIVE Definitions(_)
Definitions(depth) ==
    LET bodies == IF depth = 0 THEN {<<>>}
                  ELSE Bodies(Definitions(depth - 1), MaxBody)
    IN  {[kind |-> h.kind, name |-> h.name, line |-> 0, own |-> <<>>, body |-> b] :
            h \in DefHeads, b \in bodies}

\* node.lineno: the definitions numbered in the order of the source text
RECURSIVE Numbered(_, _)
Numbered(nodes, line) ==
    IF nodes = <<>> THEN [nodes |-> <<>>, next |-> line]
    ELSE LET inner == Numbered(Head(nodes).body, line + 1)
             rest == Numbered(Tail(nodes), inner.next)
         IN  [nodes |-> <<[Head(nodes) EXCEPT !.line = line, !.body = inner.nodes]>>
                            \o rest.nodes,
              next |-> rest.next]

GraphIdle ==
    /\ pc = "new"
    /\ err = "none"
    /\ args = [code_source |-> None, docs_source |-> None]
    /\ todo = [py |-> <<>>, md |-> <<>>]
    /\ chunks_left = <<>>
    /\ kg = KnowledgeGraph
    /\ dg = [code_root |-> Unset, docs_root |-> Unset, exclude |-> <<>>]
    /\ resolved = {}
    /\ inserted = {}
    /\ file = NoFile
    /\ loaded = <<>>
    /\ qres = NoQuery
    /\ nq = 0
    /\ hashseed = 0
    /\ load_res = NoLoad

\* ast.parse(content) has returned the tree of some module
ChunkerInit ==
    /\ GraphIdle
    /\ ChatIdle
    /\ lossy = FALSE
    /\ remote = NoRemote
    /\ ctx = NoCtx
    /\ engines = NoEngines
    /\ web = NoWeb
    /\ \E d \in Definitions(MaxNesting) :
          chunker = [pc |-> "parsed", tree |-> Numbered(<<d>>, 1).nodes, chunks |-> <<>>]

\* Collector().visit(tree); return chunks
Chunk ==
    /\ chunker.pc = "parsed"
    /\ chunker' = [chunker EXCEPT
                      !.pc = "chunked",
                      !.chunks = chunk_python(chunker.tree, [dir |-> "repo", name |-> "a.py"])]
    /\ UNCHANGED <<graphVars, chatVars, remote, ctx, engines, web>>

ChunkerNext == Chunk

SpecChunker == ChunkerInit /\ [][ChunkerNext]_vars

\* the innermost class that encloses each function definition of `nodes`,
\* in the order of the source text; cls is the class that encloses `nodes`
RECURSIVE EnclosingClasses(_, _)
EnclosingClasses(nodes, cls) ==
    IF nodes = <<>> THEN <<>>
    ELSE LET n == Head(nodes)
         IN  (IF n.kind = "def"
              THEN <<cls>> \o EnclosingClasses(n.body, cls)
              ELSE EnclosingClasses(n.body, <<Lower(n.name)>>))
             \o EnclosingClasses(Tail(nodes), cls)

FunctionParents(chunks) ==
    LET fs == SelectSeq(chunks, LAMBDA c : c.meta.node_type = "function")
    IN  [i \in 1..Len(fs) |-> fs[i].meta.parent]

\* C31: every function chunk of chunk_python has as parent the lowercased
\* name of the innermost class that encloses the function definition, or
\* no parent when no class encloses it, a method defined after a nested
\* class included.
C31_ParentIsInnermostClass ==
    chunker.pc = "chunked"
        => FunctionParents(chunker.chunks) = EnclosingClasses(chunker.tree, NoParent)


\* the BM25 term of node id for one query token, with the document
\* frequency bm25_search reads for the token
TermOnce(G, token, id) ==
    LET N == Len(G.documents)
        S == SumSeq([i \in 1..N |-> SplitLen(G.documents[i])])
        doc == G.nodes[id].content
    IN  BM25Term(Idf(N, SearchDf(G, token)), StrCount(doc, token), SplitLen(doc), S, N)

\* C32: the score bm25_search gives a node for a query of one token is the
\* BM25 term of the (token, node) pair once, however many times the node's
\* id stands in the postings list of the token.
C32_DuplicatePostingsCollapsed ==
    kg.documents # <<>> =>
        \A token \in DOMAIN kg.index :
            LET found == bm25_search(kg, <<token>>, Len(kg.documents), {}).val
            IN  \A i \in 1..Len(found) :
                    found[i].score = TermOnce(kg, token, found[i].id)


\* the place of node id among the insertions of the graph: the index of the
\* first add_node call that stored it
InsertedAt(G, id) ==
    CHOOSE i \in 1..Len(G.documents) :
        /\ sha256(G.documents[i]) = id
        /\ \A j \in 1..(i - 1) : sha256(G.documents[j]) # id

\* the queries of one or two indexed tokens
TokenQueries(G) ==
    {<<t>> : t \in DOMAIN G.index} \cup {<<t, u>> : t \in DOMAIN G.index, u \in DOMAIN G.index}

RankedAsSpecified(G, found, top_n, exclude_types) ==
    /\ Len(found) <= top_n
    /\ \A i \in 1..Len(found) : G.nodes[found[i].id].meta.node_type \notin exclude_types
    /\ \A i \in 1..Len(found), j \in 1..Len(found) :
          i < j =>
             /\ found[i].score >= found[j].score
             /\ found[i].score = found[j].score
                   => InsertedAt(G, found[i].id) < InsertedAt(G, found[j].id)

\* C33: bm25_search returns at most top_n nodes, none of an excluded kind,
\* in descending order of score, and of two nodes with the same score the
\* one inserted into the graph earlier comes first, for queries of one
\* token and of several.
C33_RankedTiesByInsertion ==
    kg.documents # <<>> =>
        \A q \in TokenQueries(kg), top_n \in {1, Len(kg.documents)},
           exclude_types \in {{}, {"class", "function"}} :
            RankedAsSpecified(kg, bm25_search(kg, q, top_n, exclude_types).val,
                              top_n, exclude_types)


(***************************************************************************)
(* ContextManager on its own: a manager as SessionManager.load leaves it   *)
(* (a stored list of contexts, last_action "none"), and update called on   *)
(* it with every mode.                                                     *)
(***************************************************************************)
ContextTexts == {<<"c1">>, <<"c2">>}

UpdateModes == {"replace", "append", "none"}

ContextInit ==
    /\ GraphIdle
    /\ ChatIdle
    /\ lossy = FALSE
    /\ remote = NoRemote
    /\ chunker = NoChunker
    /\ engines = NoEngines
    /\ web = NoWeb
    /\ \E history \in Bodies(ContextTexts, MaxContexts + 1), m \in 1..MaxContexts :
          ctx = [cm |-> [ContextManager(m) EXCEPT !.context_history = history],
                 call |-> NoCall, before |-> <<>>]

\* context_manager.update(new_context, mode)
Update(new_context, mode) ==
    /\ ctx' = [cm |-> update(ctx.cm, new_context, mode),
               call |-> [new_context |-> new_context, mode |-> mode],
               before |-> ctx.cm.context_history]
    /\ UNCHANGED <<graphVars, chatVars, remote, chunker, engines, web>>

ContextNext == \E new_context \in ContextTexts, mode \in UpdateModes : Update(new_context, mode)

SpecContext == ContextInit /\ [][ContextNext]_vars

\* the last n entries of s in their order, for n >= 1
Newest(s, n) == [i \in 1..(IF Len(s) < n THEN Len(s) ELSE n) |->
                    s[i + (IF Len(s) < n THEN 0 ELSE Len(s) - n)]]

RecentlyResolved(r) == r.ok_at # Never /\ r.now < r.ok_at + MAX_REPO_AGE_DAYS

\* the step is a construction of the resolver that finds a cache directory
\* whose last access is older than the maximum age
ConstructedOnOld ==
    /\ remote'.op = "init"
    /\ remote.dir # "absent"
    /\ LastAccess(remote) < remote.now - MAX_REPO_AGE_DAYS

C35_WitnessCollected ==
    /\ remote.op = "init"
    /\ remote.ok_at # Never
    /\ remote.now > remote.ok_at + MAX_REPO_AGE_DAYS
    /\ remote.dir = "absent"


(***************************************************************************)
(* ChatEngine.__init__ and the index cache.  A source is None or a text,   *)
(* kept as its pieces between underscores ("a_b" is <<"a", "b">>); an      *)
(* index is known by the arguments it was built from.                      *)
(***************************************************************************)
MaxEngines == 2

NoSource == [none |-> TRUE, text |-> <<>>]
Source(text) == [none |-> FALSE, text |-> text]

CodeSources == {NoSource, Source(<<"a">>), Source(<<"a", "b">>)}
DocsSources == {NoSource, Source(<<"c">>), Source(<<"b", "c">>)}
\* exclude_patterns or []
ExcludePatterns == {<<>>, <<"*/b.py">>}
CacheIds == {None, "mine"}

\* f"{x}": the text of a source, "None" for None
Fstr(x) == IF x.none THEN <<"None">> ELSE x.text

\* f"{self.code_source}_{self.docs_source}"
SourceStr(code_source, docs_source) == Fstr(code_source) \o Fstr(docs_source)

\* hashlib.md5(source_str.encode()).hexdigest()[:10]: determined by the
\* text and (collisions aside) determining it
md5_10(text) == [md5 |-> text]

\* repo_id: the cache_id given, or "doctalk_" and the hash of the sources
RepoId(code_source, docs_source, cache_id) ==
    IF cache_id # None THEN [given |-> TRUE, text |-> <<cache_id>>]
    ELSE [given |-> FALSE, text |-> md5_10(SourceStr(code_source, docs_source)).md5]

\* ChatEngine.__init__: the index is loaded from cache_path when the file
\* is there and no rebuild is forced, and built and persisted otherwise
ChatEngine(code_source, docs_source, exclude_patterns, force_rebuild, cache_id) ==
    /\ Len(engines.made) < MaxEngines
    /\ LET inputs == [code_source |-> code_source, docs_source |-> docs_source,
                      exclude_patterns |-> exclude_patterns]
           cache_path == RepoId(code_source, docs_source, cache_id)
           cached == cache_path \in DOMAIN engines.cache /\ ~force_rebuild
       IN  engines' =
              [cache |-> IF cached THEN engines.cache
                         ELSE DictSet(engines.cache, cache_path, inputs),
               made |-> Append(engines.made,
                          [inputs |-> inputs, force_rebuild |-> force_rebuild,
                           cache_id |-> cache_id, cache_path |-> cache_path,
                           from_cache |-> cached,
                           knowledge_assistant |->
                               IF cached THEN engines.cache[cache_path] ELSE inputs])]
    /\ UNCHANGED <<graphVars, chatVars, remote, chunker, ctx, web>>

EngineInit ==
    /\ GraphIdle
    /\ ChatIdle
    /\ lossy = FALSE
    /\ remote = NoRemote
    /\ AuxIdle

EngineNext ==
    \E code_source \in CodeSources, docs_source \in DocsSources,
       exclude_patterns \in ExcludePatterns, force_rebuild \in BOOLEAN,
       cache_id \in CacheIds :
        ChatEngine(code_source, docs_source, exclude_patterns, force_rebuild, cache_id)

SpecEngine == EngineInit /\ [][EngineNext]_vars

\* the engines constructed without force_rebuild and without a cache_id
PlainEngines ==
    {i \in 1..Len(engines.made) :
        ~engines.made[i].force_rebuild /\ engines.made[i].cache_id = None}

\* C36: an engine constructed without force_rebuild and without a cache_id
\* holds an index built from its own code source, docs source and exclude
\* patterns, and two such engines whose arguments differ use different
\* cache files.
C36_CacheKeyedByInputs ==
    /\ \A i \in PlainEngines :
          engines.made[i].knowledge_assistant = engines.made[i].inputs
    /\ \A i \in PlainEngines, j \in PlainEngines :
          engines.made[i].inputs # engines.made[j].inputs
             => engines.made[i].cache_path # engines.made[j].cache_path


\* what the status should say after a question with decision d
ReportFor(d) ==
    IF d = "none" THEN "No Context Added"
    ELSE IF d = "new" THEN "New Context"
    ELSE "Additional Context"

\* handler h of a WebSocket connection reads the status it sends, right
\* after update_context(question, decision) returned
StatusSent(h) ==
    /\ h \in {"ws1", "ws2"}
    /\ Updates(h)
    /\ handlers'[h].pc = "stream_deciding"

\* the command line prints the status: the stream, whose own decision
\* stream_decision was applied last, has ended without an error
StatusPrinted ==
    /\ TurnCompleted("cli")
    /\ ~handlers["cli"].raised
    /\ handlers["cli"].stream_decision # ""

\* C37: the action that get_status reports for a question is the one of
\* the decision taken for that question: 'No Context Added' after 'none',
\* 'New Context' after 'new', 'Additional Context' after 'additional'.
\* The WebSocket handler reads the status after update_context with its
\* decision, the command line after the stream, which decides once more.
C37_StatusOfLastQuestion ==
    [][/\ \A h \in Handlers : StatusSent(h) =>
              get_status(session'.context_manager).action
                 = ReportFor(handlers'[h].decision)
       /\ StatusPrinted =>
              get_status(session.context_manager).action
                 = ReportFor(handlers["cli"].stream_decision)]_vars


(***************************************************************************)
(* web/server.py: ConnectionManager and the part of websocket_endpoint     *)
(* that opens and ends a connection.                                       *)
(***************************************************************************)
\* ConnectionManager.connect, after websocket.accept()
connect(active_connections, websocket, session_id) ==
    DictSet(active_connections, session_id, websocket)

\* ConnectionManager.disconnect
disconnect(active_connections, session_id) ==
    [s \in (DOMAIN active_connections) \ {session_id} |-> active_connections[s]]

\* websocket_endpoint up to its loop: the connection is registered, and
\* the session is loaded when active_sessions has none; when Doc2Talk
\* raises, the error is sent, the connection is closed and the handler
\* returns
Connect(w, session_id, load_ok) ==
    /\ web.sockets[w].state = "new"
    /\ LET known == session_id \in web.active_sessions
       IN  web' = [active_connections |-> connect(web.active_connections, w, session_id),
                   sockets |-> [web.sockets EXCEPT ![w] =
                                   [state |-> IF known \/ load_ok THEN "open" ELSE "closed",
                                    session_id |-> session_id]],
                   active_sessions |-> IF ~known /\ load_ok
                                       THEN web.active_sessions \cup {session_id}
                                       ELSE web.active_sessions]
    /\ UNCHANGED <<graphVars, chatVars, remote, chunker, ctx, engines>>

\* the client closes connection w: receive_text raises WebSocketDisconnect
ClientDisconnect(w) ==
    /\ web.sockets[w].state = "open"
    /\ web' = [web EXCEPT
                  !.active_connections = disconnect(@, web.sockets[w].session_id),
                  !.sockets[w].state = "closed"]
    /\ UNCHANGED <<graphVars, chatVars, remote, chunker, ctx, engines>>

\* another exception leaves the loop of connection w (a message that is
\* not JSON): when the session id is registered the error is sent and the
\* session id disconnected; the handler returns and the connection ends
HandlerError(w, send_ok) ==
    /\ web.sockets[w].state = "open"
    /\ web' = [web EXCEPT
                  !.active_connections =
                      IF web.sockets[w].session_id \in DOMAIN @ /\ send_ok
                      THEN disconnect(@, web.sockets[w].session_id) ELSE @,
                  !.sockets[w].state = "closed"]
    /\ UNCHANGED <<graphVars, chatVars, remote, chunker, ctx, engines>>

WebInit ==
    /\ GraphIdle
    /\ ChatIdle
    /\ lossy = FALSE
    /\ remote = NoRemote
    /\ AuxIdle

WebNext ==
    \/ \E w \in WebSockets, session_id \in SessionIds, load_ok \in BOOLEAN :
          Connect(w, session_id, load_ok)
    \/ \E w \in WebSockets : ClientDisconnect(w)
    \/ \E w \in WebSockets, send_ok \in BOOLEAN : HandlerError(w, send_ok)

SpecWeb == WebInit /\ [][WebNext]_vars

\* connection w is open for session s
OpenFor(w, s) == web.sockets[w].state = "open" /\ web.sockets[w].session_id = s

\* C39: while a WebSocket connection for session s is open,
\* active_connections[s] is an open connection for s; in particular the
\* disconnect of one of two connections of a session does not remove the
\* registration of the other, and no closed connection stays registered.
C39_RegisteredWhileOpen ==
    \A s \in SessionIds :
        (\E w \in WebSockets : OpenFor(w, s))
            => /\ s \in DOMAIN web.active_connections
               /\ OpenFor(web.active_connections[s], s)


(***************************************************************************)
(* KnowledgeGraph on its own: any sequence of at most MaxNodes add_node    *)
(* calls on a new graph.                                                   *)
(***************************************************************************)
MaxNodes == 3

NodeContents == {<<"x">>, <<"x", "x">>, <<"usage", "x">>, <<"def", "m", "x">>}

SectionMeta(content) ==
    [type |-> "md", path |-> [dir |-> "repo", name |-> "a.md"], node_type |-> "section",
     name |-> None, parent |-> NoParent, line |-> 0, full_content |-> content]

FunctionMeta ==
    [type |-> "py", path |-> [dir |-> "repo", name |-> "a.py"], node_type |-> "function",
     name |-> "m", parent |-> NoParent, line |-> 1, full_content |-> NoFullContent]

IndexInit ==
    /\ GraphIdle
    /\ ChatIdle
    /\ lossy = FALSE
    /\ remote = NoRemote
    /\ AuxIdle

\* kg.add_node(content, meta)
AddNode(content, meta) ==
    /\ Len(kg.documents) < MaxNodes
    /\ kg' = add_node(kg, content, meta)
    /\ UNCHANGED <<pc, err, args, todo, chunks_left, dg, resolved, inserted, file, loaded,
                   qres, nq, hashseed, load_res>>
    /\ UNCHANGED <<chatVars, remote, auxVars>>

IndexNext ==
    \E content \in NodeContents :
        \E meta \in {SectionMeta(content), FunctionMeta} : AddNode(content, meta)

SpecIndex == IndexInit /\ [][IndexNext]_vars

\* C38: the document frequency bm25_search reads for a token, the length
\* of the token's postings list, is at most N = len(documents), so that
\* the argument of the logarithm of idf is at least 1.
C38_DfAtMostN ==
    \A token \in DOMAIN kg.index : SearchDf(kg, token) <= Len(kg.documents)

====
